---- MODULE Spec2Model ----
(***************************************************************************)
(* Verification model of da440dil/go-locker: the memory gateway            *)
(* (gateway/memory/memory.go), the Redis gateway (gateway/redis/redis.go)  *)
(* and the Lock handle (locker.go).                                        *)
(*                                                                         *)
(* Time is counted in clock ticks; one millisecond is MsTicks ticks, so    *)
(* that the truncation of durationToMilliseconds is visible.               *)
(***************************************************************************)
EXTENDS Integers, Sequences, FiniteSets, TLC

\* ------------------------------------------------------------------ bounds
\* time.Millisecond, in clock ticks of the model
MsTicks == 2
\* the clock stops advancing at MaxTime ticks
MaxTime == 3
\* the largest ttl (in milliseconds) a caller passes
MaxTTL == 2

\* the largest retryCount a Locker is configured with
MaxRetry == 1
\* how many tokens the random source hands out
MaxTokens == 2
\* the Lock handles competing for one key
Handles == {1, 2}

Keys == {"k1", "k2"}
Values == {"a", "b"}
\* ttl is a plain int at the gateway: 0 is a legal argument (memory_test.go:80)
TTLs == 0..MaxTTL

\* goroutines calling Set concurrently
NumProcs == 3
Procs == 1..NumProcs
\* the value each of them passes: pairwise distinct
RaceValues == <<"a", "b", "c", "d", "e">>
RaceKey == "k1"

VARIABLES
    now,       \* time.Now(), in ticks
    items,     \* storage.items of the memory gateway: map key -> item
    ret,       \* the last gateway call of the sequential client, with what it returned
    mutex,     \* storage.mutex: 0 when free, else the goroutine holding it
    proc,      \* the concurrent callers of Set: position, argument, locals, result
    disturbed, \* an installed entry of RaceKey has expired or been deleted
    rdb,       \* the Redis keyspace the Redis gateway talks to: key -> value, expiry
    rret,      \* what the Redis gateway returned for the last call
    lock,      \* the Lock handles: configuration, token, position in Lock(), locals
    hret,      \* the last Lock() / Unlock() that returned: the handle, what it returned
    nextToken, \* how many tokens the random source has produced so far
    ctxDone,   \* Done() of the context the handles were given (WithContext) has fired
    lease,     \* until when each handle's last grant runs (-1: none, unlocked or over)
    lr,        \* the NewLocker call under way: arguments, Locker built so far, error
    dly,       \* the last newDelay call: which newDelay, its arguments, what it returned
    lkmutex,   \* lk.mutex of the handle called concurrently: 0 when free, else its holder
    gor,       \* the goroutines calling that handle: the call, its position, its locals
    janitor,   \* the sweeper goroutine of a memory gateway and the channel that stops it
    storage,   \* the memory Storage with Insert/Upsert/Remove: db, timeout, its timer
    sret,      \* what the last call of that Storage returned
    ilock,     \* the Lock handles of the Insert/Upsert variant: token, position, locals
    iret       \* the last Lock() / Unlock() of that variant that returned

raceVars == <<mutex, proc, disturbed>>
redisVars == <<rdb, rret>>
lockVars == <<lock, hret, nextToken, ctxDone, lease>>
\* the calls of the library's functions that touch no gateway
fnVars == <<lr, dly>>
\* one handle called from several goroutines
serialVars == <<lkmutex, gor>>
\* the older variants of the repository: the janitor, the Storage, its lock
variantVars == <<janitor, storage, sret, ilock, iret>>
vars == <<now, items, ret, raceVars, redisVars, lockVars, fnVars, serialVars, variantVars>>

\* ---------------------------------------------------------- memory gateway

durationToMilliseconds(duration) ==
    IF duration >= 0 THEN duration \div MsTicks ELSE -((-duration) \div MsTicks)

millisecondsToDuration(ttl) == ttl * MsTicks

\* type item struct { value string; expiresAt time.Time }
item(value, expiresAt) == [value |-> value, expiresAt |-> expiresAt]

\* delete(s.items, key)
delete(m, key) == [k \in (DOMAIN m) \ {key} |-> m[k]]

\* s.items[key] = it
store(m, key, it) == [k \in (DOMAIN m) \cup {key} |-> IF k = key THEN it ELSE m[k]]

\* Set without the comparison of line 55: a live entry is overwritten
SetOverwrite(s, t, key, value, ttl) ==
    IF key \in DOMAIN s /\ s[key].expiresAt - t > 0 /\ s[key].value = value
    THEN [ok |-> TRUE, ttl |-> ttl, line |-> 57,
          items |-> [s EXCEPT ![key].expiresAt = t + millisecondsToDuration(ttl)]]
    ELSE [ok |-> TRUE, ttl |-> ttl, line |-> 66,
          items |-> store(s, key, item(value, t + millisecondsToDuration(ttl)))]

\* Set whose contention path pushes the live entry's expiry
SetTouch(s, t, key, value, ttl) ==
    IF key \in DOMAIN s /\ s[key].expiresAt - t > 0
    THEN IF s[key].value = value
         THEN [ok |-> TRUE, ttl |-> ttl, line |-> 57,
               items |-> [s EXCEPT ![key].expiresAt = t + millisecondsToDuration(ttl)]]
         ELSE [ok |-> FALSE, ttl |-> durationToMilliseconds(s[key].expiresAt - t),
               line |-> 59,
               items |-> [s EXCEPT ![key].expiresAt = t + millisecondsToDuration(ttl)]]
    ELSE [ok |-> TRUE, ttl |-> ttl, line |-> 66,
          items |-> store(s, key, item(value, t + millisecondsToDuration(ttl)))]

\* Set whose refresh adds ttl to the expiry instead of resetting it from now
SetExtend(s, t, key, value, ttl) ==
    IF key \in DOMAIN s /\ s[key].expiresAt - t > 0
    THEN IF s[key].value = value
         THEN [ok |-> TRUE, ttl |-> ttl, line |-> 57,
               items |-> [s EXCEPT ![key].expiresAt = @ + millisecondsToDuration(ttl)]]
         ELSE [ok |-> FALSE, ttl |-> durationToMilliseconds(s[key].expiresAt - t),
               line |-> 59, items |-> s]
    ELSE [ok |-> TRUE, ttl |-> ttl, line |-> 66,
          items |-> store(s, key, item(value, t + millisecondsToDuration(ttl)))]

\* Set that reports the remaining lifetime of the entry it refreshed
SetReportsOld(s, t, key, value, ttl) ==
    IF key \in DOMAIN s /\ s[key].expiresAt - t > 0
    THEN IF s[key].value = value
         THEN [ok |-> TRUE, ttl |-> durationToMilliseconds(s[key].expiresAt - t),
               line |-> 57,
               items |-> [s EXCEPT ![key].expiresAt = t + millisecondsToDuration(ttl)]]
         ELSE [ok |-> FALSE, ttl |-> durationToMilliseconds(s[key].expiresAt - t),
               line |-> 59, items |-> s]
    ELSE [ok |-> TRUE, ttl |-> ttl, line |-> 66,
          items |-> store(s, key, item(value, t + millisecondsToDuration(ttl)))]

\* Set whose contention path reports the expires-at instead of the time left
SetReportsExpiry(s, t, key, value, ttl) ==
    IF key \in DOMAIN s /\ s[key].expiresAt - t > 0
    THEN IF s[key].value = value
         THEN [ok |-> TRUE, ttl |-> ttl, line |-> 57,
               items |-> [s EXCEPT ![key].expiresAt = t + millisecondsToDuration(ttl)]]
         ELSE [ok |-> FALSE, ttl |-> durationToMilliseconds(s[key].expiresAt),
               line |-> 59, items |-> s]
    ELSE [ok |-> TRUE, ttl |-> ttl, line |-> 66,
          items |-> store(s, key, item(value, t + millisecondsToDuration(ttl)))]

\* Set that leaves expiry to the sweeper: an entry found in the map counts as
\* live (no test of exp > 0 at line 54)
SetTrustsSweeper(s, t, key, value, ttl) ==
    IF key \in DOMAIN s
    THEN IF s[key].value = value
         THEN [ok |-> TRUE, ttl |-> ttl, line |-> 57,
               items |-> [s EXCEPT ![key].expiresAt = t + millisecondsToDuration(ttl)]]
         ELSE [ok |-> FALSE, ttl |-> durationToMilliseconds(s[key].expiresAt - t),
               line |-> 59, items |-> s]
    ELSE [ok |-> TRUE, ttl |-> ttl, line |-> 66,
          items |-> store(s, key, item(value, t + millisecondsToDuration(ttl)))]

\* storage.Set: what it returns (line: the return statement taken) and the map
\* it leaves, for the map s at time t
Set(s, t, key, value, ttl) ==
    IF key \in DOMAIN s /\ s[key].expiresAt - t > 0
    THEN IF s[key].value = value
         THEN [ok |-> TRUE, ttl |-> ttl, line |-> 57,
               items |-> [s EXCEPT ![key].expiresAt = t + millisecondsToDuration(ttl)]]
         ELSE [ok |-> FALSE, ttl |-> durationToMilliseconds(s[key].expiresAt - t),
               line |-> 59, items |-> s]
    ELSE [ok |-> TRUE, ttl |-> ttl, line |-> 66,
          items |-> store(s, key, item(value, t + millisecondsToDuration(ttl)))]

\* Del without the comparison of line 74
DelAny(s, key, value) ==
    IF key \in DOMAIN s
    THEN [ok |-> TRUE, line |-> 76, items |-> delete(s, key)]
    ELSE [ok |-> FALSE, line |-> 78, items |-> s]

\* storage.Del
Del(s, key, value) ==
    IF key \in DOMAIN s /\ s[key].value = value
    THEN [ok |-> TRUE, line |-> 76, items |-> delete(s, key)]
    ELSE [ok |-> FALSE, line |-> 78, items |-> s]

\* a sweep that also deletes the entries with at most 1 ms left
deleteExpiredEarly(s, t) ==
    [k \in {x \in DOMAIN s : ~(s[x].expiresAt - t <= MsTicks)} |-> s[k]]

\* storage.deleteExpired: the sweeper's callback
deleteExpired(s, t) ==
    [k \in {x \in DOMAIN s : ~(s[x].expiresAt - t <= 0)} |-> s[k]]

\* a key's entry is live: stored, with its expires-at in the future
Live(s, t, key) == key \in DOMAIN s /\ s[key].expiresAt > t

\* ------------------------------------------------------------ Redis gateway
\* The server keeps a key until its lifetime has elapsed (native expiry); a key
\* written without PX has no expiry (when = NoExpiry).

NoExpiry == -1

NoRedisRet == [ok |-> FALSE, rttl |-> 0, err |-> "nil"]

\* redis.call("get", KEYS[1]) ~= false
redisExists(db, t, key) ==
    key \in DOMAIN db /\ (db[key].when = NoExpiry \/ db[key].when > t)

\* redis.call("pttl", KEYS[1]) on an existing key
redisPttl(db, t, key) ==
    IF db[key].when = NoExpiry THEN -1 ELSE (db[key].when - t) \div MsTicks

\* the set script (redis.go:20-31): its reply and the keyspace it leaves
setScript(db, t, key, value, ttl) ==
    IF ~redisExists(db, t, key)
    THEN [reply |-> -2,
          db |-> store(db, key, [value |-> value, when |-> t + ttl * MsTicks])]
    ELSE IF db[key].value = value
         THEN [reply |-> -2, db |-> [db EXCEPT ![key].when = t + ttl * MsTicks]]
         ELSE [reply |-> redisPttl(db, t, key), db |-> db]

\* the del script (redis.go:33-38)
delScript(db, t, key, value) ==
    IF redisExists(db, t, key) /\ db[key].value = value
    THEN [reply |-> 1, db |-> delete(db, key)]
    ELSE [reply |-> 0, db |-> db]

\* Gateway.Set of the Redis gateway: the classification of an integer reply
RedisSet(reply, ttl) ==
    IF reply = -1 THEN [ok |-> FALSE, rttl |-> 0, err |-> "ErrKeyNameClash"]
    ELSE IF reply = -2 THEN [ok |-> TRUE, rttl |-> ttl, err |-> "nil"]
    ELSE [ok |-> FALSE, rttl |-> reply, err |-> "nil"]

\* Gateway.Del of the Redis gateway
RedisDel(reply) == [ok |-> reply = 1, rttl |-> 0, err |-> "nil"]

\* ------------------------------------------------------------ Lock handles

\* the goroutines that call one handle concurrently
Goroutines == {1, 2}

\* a goroutine outside Lock() and Unlock(). op: the method it calls; token,
\* counter, ttl, deadline: the locals of the call; ok, err: what it returned
NoCall ==
    [pc |-> "idle", op |-> "", token |-> "", counter |-> 0, ttl |-> 0,
     deadline |-> 0, ok |-> FALSE, err |-> "nil"]

\* newDelay not called yet
NoDelay == [pc |-> "none", fn |-> "", retryDelay |-> 0, retryJitter |-> 0, v |-> 0]

\* no NewLocker call made yet. args: the ttl (a time.Duration, in ticks) and
\* the options passed; next: the index of the option the loop of NewLocker
\* applies next; ttl, retryCount, retryDelay, retryJitter: the fields of the
\* Locker (locker.go:107-114); err: what the call returns, once pc is "done"
NoLocker ==
    [pc |-> "none", args |-> [ttl |-> 0, options |-> << >>], next |-> 0,
     ttl |-> 0, retryCount |-> 0, retryDelay |-> 0, retryJitter |-> 0,
     err |-> "nil"]

\* no memory gateway yet. kind: which New made it ("janitor": memory.go with
\* runJanitor, "ticker": gateway/memory with ticker.Run); pc: where the sweeper
\* goroutine is ("select", "returned"); stop: the channel j.stop or ctx.Done();
\* stops: how often the stop was invoked; panic: the program has panicked;
\* swept: what its last sweep deleted: "no" entry, "all" there were, or "some"
\* with others kept
NoJanitor ==
    [kind |-> "none", pc |-> "none", stop |-> "open", stops |-> 0, panic |-> FALSE,
     swept |-> "no"]

\* no Storage yet. db: key -> data (value, ttl left, in ticks); timeout: the
\* period of its timer, in ticks; fire: when timer.C is next ready; born: when
\* each key of db was last installed or refreshed by a call of the Storage itself
NoStorage == [pc |-> "none", db |-> << >>, timeout |-> 0, fire |-> 0, born |-> << >>]

\* what the last Insert, Upsert or Remove of the Storage returned: (i, nil) or
\* (ok, nil), with the store as it was before the call
NoStorageRet ==
    [op |-> "none", key |-> "", value |-> "", ttl |-> 0, i |-> 0, ok |-> FALSE,
     before |-> << >>]

\* a handle of the Insert/Upsert variant before NewLock: key and token of Lock,
\* ttl, retryCount and retryDelay of its Locker, and of the running Lock() its
\* position, the token drawn, the counter, the last i and the timer; updated:
\* this Lock() began with update(); lost: "lost" once a Lock() that began with
\* a token came back with the ttl of a key stored by another, "freed" once the
\* other handle has then unlocked, "no" after any other return
NoILock ==
    [key |-> "", ttl |-> 0, retryCount |-> 0, retryDelay |-> 0, token |-> "",
     pc |-> "none", ltoken |-> "", counter |-> 0, i |-> 0, deadline |-> 0,
     updated |-> FALSE, lost |-> "no"]

\* what the last Lock() or Unlock() of the Insert/Upsert variant returned:
\* (i, err) or (ok, err), how many Remove calls it made, and what lost was on
\* the handle when it was called
NoIRet ==
    [op |-> "none", h |-> 0, i |-> 0, ok |-> FALSE, err |-> "nil", removes |-> 0,
     lost |-> "no"]

\* a handle before NewLock has filled it in. Besides the fields of Lock and the
\* locals of Lock() (ltoken: token, counter, lttl: ttl, deadline: the timer), it
\* counts the Set calls and the waits of the running Lock().
NoLock ==
    [key |-> "", ttl |-> 0, retryCount |-> 0, retryDelay |-> 0, retryJitter |-> 0,
     token |-> "", pc |-> "idle", ltoken |-> "", counter |-> 0, lttl |-> 0,
     deadline |-> 0, sets |-> 0, waits |-> 0]

\* what the last Lock() or Unlock() returned: handle h, (ok, ttl, err), the
\* return statement (line), whether Del was called (del), how many Set calls
\* and waits the call made, and the return statement of storage.Set that the
\* step of the return took (set; 0 when it called no Set)
NoLockRet ==
    [h |-> 0, op |-> "none", ok |-> FALSE, ttl |-> 0, err |-> "nil", del |-> FALSE,
     sets |-> 0, waits |-> 0, line |-> 0, set |-> 0]

\* ------------------------------------------------- the sequential client

NoRet ==
    [op |-> "none", key |-> "", value |-> "", ttl |-> 0, ok |-> FALSE, rttl |-> 0,
     line |-> 0]

\* a goroutine that has not called yet
IdleProc ==
    [pc |-> "idle", ttl |-> 0, t |-> 0, has |-> FALSE, v |-> item("", 0),
     ok |-> FALSE, rttl |-> 0]

Init ==
    /\ now = 0
    /\ items = << >>
    /\ ret = NoRet
    /\ mutex = 0
    /\ proc = [p \in Procs |-> IdleProc]
    /\ disturbed = FALSE
    /\ rdb = << >>
    /\ rret = NoRedisRet
    /\ lock = [h \in Handles |-> NoLock]
    /\ hret = NoLockRet
    /\ nextToken = 0
    /\ ctxDone = FALSE
    /\ lease = [h \in Handles |-> -1]
    /\ lr = NoLocker
    /\ dly = NoDelay
    /\ lkmutex = 0
    /\ gor = [g \in Goroutines |-> NoCall]
    /\ janitor = NoJanitor /\ storage = NoStorage /\ sret = NoStorageRet
    /\ ilock = [h \in Handles |-> NoILock] /\ iret = NoIRet

\* gw.Set(key, value, ttl) called and returned
SetCall(key, value, ttl) ==
    LET r == Set(items, now, key, value, ttl) IN
    /\ items' = r.items
    /\ ret' = [op |-> "Set", key |-> key, value |-> value, ttl |-> ttl,
               ok |-> r.ok, rttl |-> r.ttl, line |-> r.line]
    /\ UNCHANGED <<now, raceVars, redisVars, fnVars, serialVars, variantVars, lockVars>>

\* gw.Del(key, value) called and returned
DelCall(key, value) ==
    LET r == Del(items, key, value) IN
    /\ items' = r.items
    /\ ret' = [op |-> "Del", key |-> key, value |-> value, ttl |-> 0,
               ok |-> r.ok, rttl |-> 0, line |-> r.line]
    /\ UNCHANGED <<now, raceVars, redisVars, fnVars, serialVars, variantVars, lockVars>>

\* one run of the sweeper (ticker.Run calls s.deleteExpired)
Sweep ==
    /\ items' = deleteExpired(items, now)
    /\ UNCHANGED <<now, ret, raceVars, redisVars, fnVars, serialVars, variantVars, lockVars>>

\* the clock advances
Tick ==
    /\ now < MaxTime
    /\ now' = now + 1
    /\ UNCHANGED <<items, ret, raceVars, redisVars, fnVars, serialVars, variantVars, lockVars>>

Next ==
    \/ \E k \in Keys, v \in Values, ttl \in TTLs : SetCall(k, v, ttl)
    \/ \E k \in Keys, v \in Values : DelCall(k, v)
    \/ Sweep
    \/ Tick

Spec == Init /\ [][Next]_vars

\* ---------------------------------------------- claims on the memory gateway

\* C1: mutual exclusion at the gateway. While a key holds a value V with its
\* expires-at in the future, Set with another value returns installed=false and
\* the stored value stays V; no step of the gateway (Set, Del, sweep, time)
\* replaces the value of a live entry by a different one.
C1_MutualExclusion ==
    [][/\ \A k \in Keys, v \in Values, ttl \in TTLs :
            (SetCall(k, v, ttl) /\ Live(items, now, k) /\ items[k].value # v)
                => /\ ~ret'.ok
                   /\ k \in DOMAIN items'
                   /\ items'[k].value = items[k].value
       /\ \A k \in Keys :
            (Live(items, now, k) /\ k \in DOMAIN items')
                => items'[k].value = items[k].value]_vars

\* C1 witness: a Set just lost against a live entry holding another value
C1_Witness ==
    /\ ret.op = "Set" /\ ~ret.ok
    /\ Live(items, now, ret.key)
    /\ items[ret.key].value # ret.value

\* C4: fenced release at the gateway. Del with a value other than the stored one
\* returns removed=false and leaves the entry unchanged; Del with the stored
\* value removes the entry and returns true; the same Del right after it
\* returns false.
C4_FencedRelease ==
    [][\A k \in Keys, v \in Values :
         DelCall(k, v) =>
            /\ (k \in DOMAIN items /\ items[k].value # v)
                  => (~ret'.ok /\ items' = items)
            /\ (k \in DOMAIN items /\ items[k].value = v)
                  => (ret'.ok /\ k \notin DOMAIN items'
                        /\ \A k2 \in DOMAIN items \ {k} :
                              k2 \in DOMAIN items' /\ items'[k2] = items[k2])
            /\ (ret.op = "Del" /\ ret.ok /\ ret.key = k /\ ret.value = v)
                  => ~ret'.ok]_vars

\* C4 witness: a Del with a foreign value was refused and the entry is still there
C4_Witness ==
    /\ ret.op = "Del" /\ ~ret.ok
    /\ ret.key \in DOMAIN items
    /\ items[ret.key].value # ret.value

\* C6: Del on an entry whose expires-at has passed returns removed=false, as on
\* an absent key, even when the value matches and the sweeper has not run.
C6_DelExpiredIsAbsent ==
    [][\A k \in Keys, v \in Values :
         (DelCall(k, v) /\ ~Live(items, now, k)) => ~ret'.ok]_vars

\* C8: Set returns installed=true exactly when the key has no live entry or the
\* live entry holds the caller's value; then the store holds (value, now+ttl)
\* and the returned ttl is the requested one.
C8_SetSuccessCases ==
    [][\A k \in Keys, v \in Values, ttl \in TTLs :
         SetCall(k, v, ttl) =>
            /\ ret'.ok <=> (~Live(items, now, k) \/ items[k].value = v)
            /\ ret'.ok =>
                  /\ ret'.rttl = ttl
                  /\ k \in DOMAIN items'
                  /\ items'[k] = item(v, now + ttl * MsTicks)]_vars

\* C8 witness: after time has passed, a Set found no live entry, installed its
\* value (memory.go:62-66) and returned true with the ttl it was given
C8_Witness ==
    /\ ret.op = "Set" /\ ret.ok /\ ret.line = 66
    /\ now > 0
    /\ items[ret.key] = item(ret.value, now + ret.ttl * MsTicks)

\* C9: refresh idempotence. Set(key, V, t) on a live entry holding V returns
\* (true, t), keeps one entry for the key with value V, and sets its expiry to
\* t after the time of the call, whatever lifetime was left.
C9_RefreshIdempotence ==
    [][\A k \in Keys, v \in Values, ttl \in TTLs :
         (SetCall(k, v, ttl) /\ Live(items, now, k) /\ items[k].value = v) =>
            /\ ret'.ok /\ ret'.rttl = ttl
            /\ DOMAIN items' = DOMAIN items
            /\ items'[k] = item(v, now + ttl * MsTicks)
            /\ \A k2 \in DOMAIN items \ {k} : items'[k2] = items[k2]]_vars

\* C9 witness: a refresh (line 57) happened some time after the install
C9_Witness ==
    /\ ret.op = "Set" /\ ret.ok /\ ret.line = 57
    /\ now > 0
    /\ items[ret.key].expiresAt = now + ret.ttl * MsTicks

\* C10: a contended Set changes nothing: when Set returns installed=false the
\* value and expires-at of the key, and every other key, are as before.
C10_ContendedSetFrame ==
    [][\A k \in Keys, v \in Values, ttl \in TTLs :
         (SetCall(k, v, ttl) /\ ~ret'.ok) => items' = items]_vars

\* C10 witness: a contended Set returned while both keys are stored
C10_Witness ==
    /\ ret.op = "Set" /\ ~ret.ok /\ ret.line = 59
    /\ DOMAIN items = Keys

\* C11: on contention the ttl Set returns is a positive number of milliseconds,
\* not greater than the lifetime the live entry has left at the call, for every
\* positive lifetime left.
C11_ContentionTTLPositive ==
    [][\A k \in Keys, v \in Values, ttl \in TTLs :
         (SetCall(k, v, ttl) /\ ~ret'.ok) =>
            /\ ret'.rttl > 0
            /\ millisecondsToDuration(ret'.rttl) <= items[k].expiresAt - now]_vars

\* the upper half of C11 alone: the ttl reported on contention is never
\* negative and never more than the lifetime left
ContentionTTLAtMostLeft ==
    [][\A k \in Keys, v \in Values, ttl \in TTLs :
         (SetCall(k, v, ttl) /\ ~ret'.ok) =>
            /\ ret'.rttl >= 0
            /\ millisecondsToDuration(ret'.rttl) <= items[k].expiresAt - now]_vars

\* ------------------------------------------- concurrent callers of Set

\* s.mutex.Lock(): blocks until the mutex is free
mutexLockFree(p) == mutex' = p

mutexLock(p) == mutex = 0 /\ mutex' = p

\* the key has no live entry when the callers start: absent, or expired and unswept
InitRace ==
    /\ now = 0
    /\ items \in {<< >>, [k \in {RaceKey} |-> item("z", 0)]}
    /\ ret = NoRet
    /\ mutex = 0
    /\ proc = [p \in Procs |-> IdleProc]
    /\ disturbed = FALSE
    /\ rdb = << >>
    /\ rret = NoRedisRet
    /\ lock = [h \in Handles |-> NoLock]
    /\ hret = NoLockRet
    /\ nextToken = 0
    /\ ctxDone = FALSE
    /\ lease = [h \in Handles |-> -1]
    /\ lr = NoLocker
    /\ dly = NoDelay
    /\ lkmutex = 0
    /\ gor = [g \in Goroutines |-> NoCall]
    /\ janitor = NoJanitor /\ storage = NoStorage /\ sret = NoStorageRet
    /\ ilock = [h \in Handles |-> NoILock] /\ iret = NoIRet

\* goroutine p calls gw.Set(RaceKey, RaceValues[p], ttl) and gets the mutex
\* (memory.go:46-48)
RaceEnter(p, ttl) ==
    /\ proc[p].pc = "idle"
    /\ mutexLock(p)
    /\ proc' = [proc EXCEPT ![p].pc = "read", ![p].ttl = ttl]
    /\ UNCHANGED <<now, items, ret, disturbed, redisVars, fnVars, serialVars, variantVars, lockVars>>

\* memory.go:50-51: now := time.Now(); v, ok := s.items[key]
RaceRead(p) ==
    /\ proc[p].pc = "read"
    /\ proc' = [proc EXCEPT ![p].pc = "write", ![p].t = now,
                             ![p].has = RaceKey \in DOMAIN items,
                             ![p].v = IF RaceKey \in DOMAIN items
                                      THEN items[RaceKey] ELSE item("", 0)]
    /\ UNCHANGED <<now, items, ret, mutex, disturbed, redisVars, fnVars, serialVars, variantVars, lockVars>>

\* memory.go:52-67: the decision on what was read, the write, the deferred
\* s.mutex.Unlock() and the return
RaceWrite(p) ==
    LET seen == IF proc[p].has THEN [k \in {RaceKey} |-> proc[p].v] ELSE << >>
        r == Set(seen, proc[p].t, RaceKey, RaceValues[p], proc[p].ttl)
    IN  /\ proc[p].pc = "write"
        /\ items' = IF r.line = 59 THEN items ELSE store(items, RaceKey, r.items[RaceKey])
        /\ proc' = [proc EXCEPT ![p] = [IdleProc EXCEPT !.pc = "done", !.ok = r.ok,
                                                         !.rttl = r.ttl]]
        /\ mutex' = IF mutex = p THEN 0 ELSE mutex
        \* the entry counts from the time read at line 50: it may be written expired
        /\ disturbed' = (disturbed \/ (r.ok /\ ~Live(items', now, RaceKey)))
        /\ UNCHANGED <<now, ret, redisVars, fnVars, serialVars, variantVars, lockVars>>

\* another goroutine calls gw.Del(RaceKey, value)
RaceDel(value) ==
    LET r == Del(items, RaceKey, value) IN
    /\ mutex = 0
    /\ items' = r.items
    /\ disturbed' = (disturbed \/ r.ok)
    /\ UNCHANGED <<now, ret, mutex, proc, redisVars, fnVars, serialVars, variantVars, lockVars>>

\* the sweeper runs: deleteExpired takes the mutex
RaceSweep ==
    /\ mutex = 0
    /\ items' = deleteExpired(items, now)
    /\ UNCHANGED <<now, ret, raceVars, redisVars, fnVars, serialVars, variantVars, lockVars>>

\* the clock advances; a live entry may expire
RaceTick ==
    /\ now < MaxTime
    /\ now' = now + 1
    /\ disturbed' = (disturbed \/ (Live(items, now, RaceKey) /\ ~Live(items, now + 1, RaceKey)))
    /\ UNCHANGED <<items, ret, mutex, proc, redisVars, fnVars, serialVars, variantVars, lockVars>>

NextRace ==
    \/ \E p \in Procs, ttl \in 1..MaxTTL : RaceEnter(p, ttl)
    \/ \E p \in Procs : RaceRead(p)
    \/ \E p \in Procs : RaceWrite(p)
    \/ \E p \in Procs : RaceDel(RaceValues[p])
    \/ RaceSweep
    \/ RaceTick

SpecRace == InitRace /\ [][NextRace]_vars

\* the callers that have returned, and those that returned installed=true
RaceDone == {p \in Procs : proc[p].pc = "done"}
RaceWon == {p \in RaceDone : proc[p].ok}

\* C3: of the concurrent Set calls with pairwise distinct values on a key with
\* no live entry, exactly one returns installed=true and all the others return
\* false, as long as the winner's entry has neither expired nor been deleted.
C3_ExactlyOneInstalls ==
    ~disturbed =>
        /\ Cardinality(RaceWon) <= 1
        /\ RaceDone # {} => Cardinality(RaceWon) = 1

\* C3 witness: every caller has returned after time had passed, exactly one
\* installed, its entry is intact, and a loser was refused with less than a
\* millisecond of lifetime left (reported as 0)
C3_Witness ==
    /\ RaceDone = Procs
    /\ ~disturbed
    /\ now > 0
    /\ Cardinality(RaceWon) = 1
    /\ \E p \in Procs : ~proc[p].ok /\ proc[p].rttl = 0

\* --------------------------------- the two gateways driven by the same calls

\* the ttl a Locker passes is at least 1 ms (locker.go:121)
LockTTLs == 1..MaxTTL

EquivSet(key, value, ttl) ==
    LET r == Set(items, now, key, value, ttl)
        q == setScript(rdb, now, key, value, ttl)
    IN  /\ items' = r.items
        /\ ret' = [op |-> "Set", key |-> key, value |-> value, ttl |-> ttl,
                   ok |-> r.ok, rttl |-> r.ttl, line |-> r.line]
        /\ rdb' = q.db
        /\ rret' = RedisSet(q.reply, ttl)
        /\ UNCHANGED <<now, raceVars, fnVars, serialVars, variantVars, lockVars>>

EquivDel(key, value) ==
    LET r == Del(items, key, value)
        q == delScript(rdb, now, key, value)
    IN  /\ items' = r.items
        /\ ret' = [op |-> "Del", key |-> key, value |-> value, ttl |-> 0,
                   ok |-> r.ok, rttl |-> 0, line |-> r.line]
        /\ rdb' = q.db
        /\ rret' = RedisDel(q.reply)
        /\ UNCHANGED <<now, raceVars, fnVars, serialVars, variantVars, lockVars>>

\* the memory gateway's sweeper (Sweep) has no counterpart in Redis
NextEquiv ==
    \/ \E k \in Keys, v \in Values, ttl \in LockTTLs : EquivSet(k, v, ttl)
    \/ \E k \in Keys, v \in Values : EquivDel(k, v)
    \/ Sweep
    \/ Tick

SpecEquiv == Init /\ [][NextEquiv]_vars

\* C7: backend equivalence. After every Set and every Del the memory gateway
\* and the Redis gateway have returned the same (installed, ttl) / removed,
\* without error.
C7_BackendEquivalence ==
    /\ rret.err = "nil"
    /\ ret.ok = rret.ok
    /\ ret.rttl = rret.rttl

\* the same, for the Set calls alone
EquivOnSet == ret.op = "Set" => C7_BackendEquivalence

\* ------------------------------------- Lock handles on the memory gateway

\* the token names the random source hands out, in order
TokenNames == <<"t1", "t2", "t3", "t4", "t5", "t6", "t7", "t8">>

\* newToken with a broken random source: every draw gives the same token
newTokenRepeats(n) == TokenNames[1]

\* newToken (token.go): the n-th draw of 16 random bytes, never drawn before
newToken(n) == TokenNames[n]

\* newDelay whose rnd.Intn is given one value too many
newDelayWide(retryDelay, retryJitter) ==
    IF retryJitter = 0 THEN {retryDelay}
    ELSE LET d == IF retryDelay < retryJitter THEN retryJitter ELSE retryDelay
             j == IF retryDelay < retryJitter THEN retryDelay ELSE retryJitter
         IN  (d - j)..(d + j + 1)

\* newDelay (delay.go:10-20): the values rnd.Intn can make it return
newDelay(retryDelay, retryJitter) ==
    IF retryJitter = 0 THEN {retryDelay}
    ELSE LET d == IF retryDelay < retryJitter THEN retryJitter ELSE retryDelay
             j == IF retryDelay < retryJitter THEN retryDelay ELSE retryJitter
         IN  (d - j)..(d + j)

\* (retryCount, retryDelay, retryJitter) of the Locker: the defaults, and
\* WithRetryCount, WithRetryDelay and WithRetryJitter (delays of 0, 1 and 2 ms)
RetryOptions == {<<0, 0, 0>>, <<MaxRetry, 1, 1>>}

\* the ttl of the Locker a handle comes from: the shortest and the longest
HandleTTLs == {1, MaxTTL}

\* Locker.NewLock (locker.go:166-186) on Lockers that NewLocker accepted
NewLock(key, ttl, retry) ==
    [NoLock EXCEPT !.key = key, !.ttl = ttl, !.retryCount = retry[1],
                   !.retryDelay = retry[2], !.retryJitter = retry[3]]

InitLock ==
    /\ now = 0
    /\ items = << >>
    /\ ret = NoRet
    /\ mutex = 0
    /\ proc = [p \in Procs |-> IdleProc]
    /\ disturbed = FALSE
    /\ rdb = << >>
    /\ rret = NoRedisRet
    /\ \E retry \in RetryOptions :
          lock \in [Handles -> {NewLock(RaceKey, ttl, retry) : ttl \in HandleTTLs}]
    /\ hret = NoLockRet
    /\ nextToken = 0
    /\ ctxDone = FALSE
    /\ lease = [h \in Handles |-> -1]
    /\ lr = NoLocker
    /\ dly = NoDelay
    /\ lkmutex = 0
    /\ gor = [g \in Goroutines |-> NoCall]
    /\ janitor = NoJanitor /\ storage = NoStorage /\ sret = NoStorageRet
    /\ ilock = [h \in Handles |-> NoILock] /\ iret = NoIRet

\* the handle as Lock() and Unlock() leave it when they return
Returned(l) ==
    [l EXCEPT !.pc = "idle", !.ltoken = "", !.counter = 0, !.lttl = 0, !.deadline = 0,
              !.sets = 0, !.waits = 0]

\* a Lock() that, finding lk.token empty, takes the token it drew last again
\* (it draws only when none was drawn yet)
LockBeginLastToken(h) ==
    [lock[h] EXCEPT !.ltoken = IF lock[h].token # "" THEN lock[h].token
                               ELSE IF nextToken = 0 THEN newToken(1)
                               ELSE newToken(nextToken),
                    !.counter = lock[h].retryCount]

\* a Lock() that draws a new token on every call, whatever lk.token holds
LockBeginFreshToken(h) ==
    [lock[h] EXCEPT !.ltoken = newToken(nextToken + 1),
                    !.counter = lock[h].retryCount]

\* Lock.Lock, locker.go:244-256: the handle with the locals of Lock() as the
\* loop is entered: lk.token reused, or a token drawn; counter = lk.retryCount.
\* These lines touch the handle alone, under lk.mutex: they are taken together
\* with the first attempt.
LockBegin(h) ==
    [lock[h] EXCEPT !.ltoken = IF lock[h].token = "" THEN newToken(nextToken + 1)
                                                      ELSE lock[h].token,
                    !.counter = lock[h].retryCount]

\* a select that never takes the case of the timer
LockTimerNever(h) == FALSE

\* locker.go:283-287, case <-timer.C: Lock() waits and its retry timer has
\* fired; the next attempt follows
LockTimer(h) == lock[h].pc = "wait" /\ now >= lock[h].deadline

\* Lock() is called and newToken draws from the random source
DrawsToken(h) == lock[h].pc = "idle" /\ lock[h].token = ""

\* gateway.Set is about to be called: by a Lock() just called, or after the timer
AtSet(h) ==
    \/ lock[h].pc = "idle" /\ (DrawsToken(h) => nextToken < MaxTokens)
    \/ LockTimer(h)

\* the handle and the locals of Lock() at that Set call
Attempting(h) == IF lock[h].pc = "idle" THEN LockBegin(h) ELSE lock[h]

\* Lock() that calls the gateway before it looks at the error of newToken
LockTokenErrorAfterSet(h) ==
    /\ lock[h].pc = "idle"
    /\ lock[h].token = ""
    /\ hret' = [h |-> h, op |-> "Lock", ok |-> FALSE, ttl |-> 0,
                err |-> "rand", del |-> FALSE, sets |-> 1, waits |-> 0,
                line |-> 252, set |-> 0]
    /\ items' = Set(items, now, lock[h].key, "", lock[h].ttl).items
    /\ UNCHANGED <<now, ret, raceVars, redisVars, fnVars, serialVars, variantVars, lock, nextToken, ctxDone, lease>>

\* locker.go:250-253: the random source fails
LockTokenError(h) ==
    /\ lock[h].pc = "idle"
    /\ lock[h].token = ""
    /\ hret' = [h |-> h, op |-> "Lock", ok |-> FALSE, ttl |-> 0,
                err |-> "rand", del |-> FALSE, sets |-> 0, waits |-> 0,
                line |-> 252, set |-> 0]
    /\ UNCHANGED <<now, items, ret, raceVars, redisVars, fnVars, serialVars, variantVars, lock, nextToken, ctxDone, lease>>

\* the loop of Lock() that gives up one attempt late
exhaustedLate(counter) == counter < 0

\* locker.go:269: if counter <= 0, no attempt is left
exhausted(counter) == counter <= 0

\* locker.go:259-288: one attempt, lk.gateway.Set answering without error; on
\* contention with attempts left, the timer is set and the select is entered.
\* With Done() closed and the timer not yet fired the select takes Done; with
\* both ready (a timeout of 0) it takes either; with neither, Lock() blocks.
LockAttempt(h) ==
    LET l == Attempting(h)
        r == Set(items, now, l.key, l.ltoken, l.ttl)
    IN  /\ AtSet(h)
        /\ nextToken' = IF DrawsToken(h) THEN nextToken + 1 ELSE nextToken
        /\ items' = r.items
        /\ \/ /\ r.ok
              /\ lock' = [lock EXCEPT ![h] = Returned([l EXCEPT !.token = l.ltoken])]
              /\ hret' = [h |-> h, op |-> "Lock", ok |-> TRUE, ttl |-> r.ttl,
                          err |-> "nil", del |-> FALSE, sets |-> l.sets + 1,
                          waits |-> l.waits, line |-> 266, set |-> r.line]
              /\ lease' = [lease EXCEPT ![h] = now + l.ttl * MsTicks]
           \/ /\ ~r.ok /\ exhausted(l.counter)
              /\ lock' = [lock EXCEPT ![h] = Returned([l EXCEPT !.token = ""])]
              /\ hret' = [h |-> h, op |-> "Lock", ok |-> FALSE, ttl |-> r.ttl,
                          err |-> "nil", del |-> FALSE, sets |-> l.sets + 1,
                          waits |-> l.waits, line |-> 271, set |-> r.line]
              /\ UNCHANGED lease
           \/ /\ ~r.ok /\ ~exhausted(l.counter)
              /\ \E d \in newDelay(l.retryDelay, l.retryJitter) :
                    \/ /\ ~ctxDone \/ d = 0
                       /\ lock' = [lock EXCEPT ![h] =
                                      [l EXCEPT !.pc = "wait",
                                                !.counter = l.counter - 1,
                                                !.lttl = r.ttl,
                                                !.deadline = now + d * MsTicks,
                                                !.sets = l.sets + 1,
                                                !.waits = l.waits + 1]]
                       /\ UNCHANGED hret
                    \/ /\ ctxDone
                       /\ lock' = [lock EXCEPT ![h] = Returned(l)]
                       /\ hret' = [h |-> h, op |-> "Lock", ok |-> FALSE, ttl |-> r.ttl,
                                   err |-> "nil", del |-> FALSE, sets |-> l.sets + 1,
                                   waits |-> l.waits, line |-> 285, set |-> r.line]
              /\ UNCHANGED lease
        /\ UNCHANGED <<now, ret, raceVars, redisVars, fnVars, serialVars, variantVars, ctxDone>>

\* the errors a gateway's Set returns: one of the Redis gateway's own
\* (redis.go:65) and an I/O error of the backend
GatewayErrors == {"ErrKeyNameClash", "io"}

\* a loop that takes an error of the last attempt for a success
LockSetErrorMasked(h, e) ==
    LET l == Attempting(h) IN
    /\ AtSet(h)
    /\ nextToken' = IF DrawsToken(h) THEN nextToken + 1 ELSE nextToken
    /\ IF exhausted(l.counter)
       THEN /\ lock' = [lock EXCEPT ![h] = Returned([l EXCEPT !.token = l.ltoken])]
            /\ hret' = [h |-> h, op |-> "Lock", ok |-> TRUE, ttl |-> 0,
                        err |-> "nil", del |-> FALSE, sets |-> l.sets + 1,
                        waits |-> l.waits, line |-> 261, set |-> 0]
       ELSE /\ lock' = [lock EXCEPT ![h] = Returned(l)]
            /\ hret' = [h |-> h, op |-> "Lock", ok |-> FALSE, ttl |-> 0,
                        err |-> e, del |-> FALSE, sets |-> l.sets + 1,
                        waits |-> l.waits, line |-> 261, set |-> 0]
    /\ UNCHANGED <<now, items, ret, raceVars, redisVars, fnVars, serialVars, variantVars, ctxDone, lease>>

\* locker.go:259-262: lk.gateway.Set fails with error e, having changed nothing
LockSetErrorWith(h, e) ==
    LET l == Attempting(h) IN
    /\ AtSet(h)
    /\ nextToken' = IF DrawsToken(h) THEN nextToken + 1 ELSE nextToken
    /\ lock' = [lock EXCEPT ![h] = Returned(l)]
    /\ hret' = [h |-> h, op |-> "Lock", ok |-> FALSE, ttl |-> 0,
                err |-> e, del |-> FALSE, sets |-> l.sets + 1,
                waits |-> l.waits, line |-> 261, set |-> 0]
    /\ UNCHANGED <<now, items, ret, raceVars, redisVars, fnVars, serialVars, variantVars, ctxDone, lease>>

LockSetError(h) == \E e \in GatewayErrors : LockSetErrorWith(h, e)

\* a select whose Done case falls through to the next attempt
LockCancelledRetries(h) ==
    /\ lock[h].pc = "cancelled"
    /\ lock' = [lock EXCEPT ![h].pc = "wait", ![h].deadline = now]
    /\ UNCHANGED <<now, items, ret, raceVars, redisVars, fnVars, serialVars, variantVars, hret, nextToken, ctxDone, lease>>

\* locker.go:283-285, case <-lk.ctx.Done(): the blocked select was woken by
\* the cancellation
LockCancelled(h) ==
    /\ lock[h].pc = "cancelled"
    /\ hret' = [h |-> h, op |-> "Lock", ok |-> FALSE, ttl |-> lock[h].lttl,
                err |-> "nil", del |-> FALSE, sets |-> lock[h].sets,
                waits |-> lock[h].waits, line |-> 285, set |-> 0]
    /\ lock' = [lock EXCEPT ![h] = Returned(lock[h])]
    /\ UNCHANGED <<now, items, ret, raceVars, redisVars, fnVars, serialVars, variantVars, nextToken, ctxDone, lease>>

\* the owner of the context given by WithContext cancels it: Done() is closed,
\* which wakes every Lock() blocked in the select whose timer has not fired
Cancel ==
    /\ ~ctxDone
    /\ ctxDone' = TRUE
    /\ lock' = [h \in Handles |->
                  IF lock[h].pc = "wait" /\ now < lock[h].deadline
                  THEN [lock[h] EXCEPT !.pc = "cancelled"] ELSE lock[h]]
    /\ UNCHANGED <<now, items, ret, raceVars, redisVars, fnVars, serialVars, variantVars, hret, nextToken, lease>>

\* Unlock without the test of locker.go:297: Del is called with any token
UnlockAlwaysDel(h) ==
    LET l == lock[h]
        r == Del(items, l.key, l.token)
    IN  /\ l.pc = "idle"
        /\ lock' = [lock EXCEPT ![h].token = ""]
        /\ items' = r.items
        /\ hret' = [h |-> h, op |-> "Unlock", ok |-> r.ok, ttl |-> 0,
                    err |-> "nil", del |-> TRUE, sets |-> 0, waits |-> 0,
                    line |-> 303, set |-> 0]
        /\ lease' = [lease EXCEPT ![h] = -1]
        /\ UNCHANGED <<now, ret, raceVars, redisVars, fnVars, serialVars, variantVars, nextToken, ctxDone>>

\* Unlock that gives up the token only when Del has removed the entry
UnlockKeepsToken(h) ==
    LET l == lock[h]
        r == Del(items, l.key, l.token)
    IN  /\ l.pc = "idle"
        /\ IF l.token = ""
           THEN /\ hret' = [h |-> h, op |-> "Unlock", ok |-> FALSE, ttl |-> 0,
                            err |-> "nil", del |-> FALSE, sets |-> 0, waits |-> 0,
                            line |-> 298, set |-> 0]
                /\ UNCHANGED <<items, lock>>
           ELSE /\ lock' = [lock EXCEPT ![h].token = IF r.ok THEN "" ELSE l.token]
                /\ items' = r.items
                /\ hret' = [h |-> h, op |-> "Unlock", ok |-> r.ok, ttl |-> 0,
                            err |-> "nil", del |-> TRUE, sets |-> 0, waits |-> 0,
                            line |-> 303, set |-> 0]
        /\ lease' = [lease EXCEPT ![h] = -1]
        /\ UNCHANGED <<now, ret, raceVars, redisVars, fnVars, serialVars, variantVars, nextToken, ctxDone>>

\* Lock.Unlock, locker.go:293-304 (lk.mutex is free: no Lock() is running)
Unlock(h) ==
    LET l == lock[h]
        r == Del(items, l.key, l.token)
    IN  /\ l.pc = "idle"
        /\ IF l.token = ""
           THEN /\ hret' = [h |-> h, op |-> "Unlock", ok |-> FALSE, ttl |-> 0,
                            err |-> "nil", del |-> FALSE, sets |-> 0, waits |-> 0,
                            line |-> 298, set |-> 0]
                /\ UNCHANGED <<items, lock>>
           ELSE /\ lock' = [lock EXCEPT ![h].token = ""]
                /\ items' = r.items
                /\ hret' = [h |-> h, op |-> "Unlock", ok |-> r.ok, ttl |-> 0,
                            err |-> "nil", del |-> TRUE, sets |-> 0, waits |-> 0,
                            line |-> 303, set |-> 0]
        /\ lease' = [lease EXCEPT ![h] = -1]
        /\ UNCHANGED <<now, ret, raceVars, redisVars, fnVars, serialVars, variantVars, nextToken, ctxDone>>

\* Lock.Unlock, locker.go:297-303, when lk.gateway.Del fails, having removed
\* nothing: the token is cleared at line 302, the error returned at line 303
UnlockDelError(h) ==
    /\ lock[h].pc = "idle"
    /\ lock[h].token # ""
    /\ lock' = [lock EXCEPT ![h].token = ""]
    /\ hret' = [h |-> h, op |-> "Unlock", ok |-> FALSE, ttl |-> 0,
                err |-> "io", del |-> TRUE, sets |-> 0, waits |-> 0,
                line |-> 303, set |-> 0]
    /\ UNCHANGED <<now, items, ret, raceVars, redisVars, fnVars, serialVars, variantVars, nextToken, ctxDone, lease>>

\* const MaxKeySize (locker.go:221), in bytes
MaxKeySize == 512000000

\* isValidKey (locker.go:223-225), on the size in bytes of the key
isValidKey(size) == size <= MaxKeySize

\* the sizes of the prefixes WithPrefix accepts and of the keys callers pass,
\* around the limit
PrefixSizes == {0, 1}
KeySizes == {MaxKeySize - 1, MaxKeySize, MaxKeySize + 1}

\* Locker.Lock (locker.go:150-154) with a key that NewLock (locker.go:167-170)
\* refuses: (nil, ErrInvalidKey), the gateway not called
LockInvalidKey(prefix, key) ==
    /\ isValidKey(prefix)
    /\ ~isValidKey(prefix + key)
    /\ hret' = [h |-> 0, op |-> "LockInvalidKey", ok |-> FALSE, ttl |-> 0,
                err |-> "ErrInvalidKey", del |-> FALSE, sets |-> 0, waits |-> 0,
                line |-> 153, set |-> 0]
    /\ UNCHANGED <<now, items, ret, raceVars, redisVars, fnVars, serialVars, variantVars, lock, nextToken, ctxDone, lease>>

\* the clock advances; a grant whose ttl has elapsed is over
LockTick ==
    /\ now < MaxTime
    /\ now' = now + 1
    /\ lease' = [h \in Handles |-> IF lease[h] <= now + 1 THEN -1 ELSE lease[h]]
    /\ UNCHANGED <<items, ret, raceVars, redisVars, fnVars, serialVars, variantVars, lock, hret, nextToken, ctxDone>>

NextLock ==
    \/ \E h \in Handles : LockTokenError(h)
    \/ \E h \in Handles : LockAttempt(h)
    \/ \E h \in Handles : LockSetError(h)
    \/ \E h \in Handles : LockCancelled(h)
    \/ Cancel
    \/ \E h \in Handles : Unlock(h)
    \/ \E prefix \in PrefixSizes, key \in KeySizes : LockInvalidKey(prefix, key)
    \/ Sweep
    \/ LockTick

SpecLock == InitLock /\ [][NextLock]_vars

\* handles of Lockers with the default retry policy (no retry), on a gateway
\* whose Del may fail
InitLockDelError ==
    /\ InitLock
    /\ \A h \in Handles : lock[h].retryCount = 0

NextLockDelError ==
    \/ \E h \in Handles : LockTokenError(h)
    \/ \E h \in Handles : LockAttempt(h)
    \/ \E h \in Handles : LockSetError(h)
    \/ \E h \in Handles : Unlock(h)
    \/ \E h \in Handles : UnlockDelError(h)
    \/ Sweep
    \/ LockTick

SpecLockDelError == InitLockDelError /\ [][NextLockDelError]_vars

\* newTTLError given the milliseconds as they are, not as a duration
LockerLockRawTTL(r) ==
    IF r.err # "nil" THEN [kind |-> r.err, ttl |-> 0]
    ELSE IF ~r.ok THEN [kind |-> "TTLError", ttl |-> r.ttl]
    ELSE [kind |-> "nil", ttl |-> 0]

\* Locker.Lock (locker.go:150-163) on a valid key: the error it returns with
\* the handle, for what lock.Lock() returned
LockerLock(r) ==
    IF r.err # "nil" THEN [kind |-> r.err, ttl |-> 0]
    ELSE IF ~r.ok THEN [kind |-> "TTLError", ttl |-> millisecondsToDuration(r.ttl)]
    ELSE [kind |-> "nil", ttl |-> 0]

\* the attempt of handle h in this step made Lock() return success
\* what every step of Lock() or Unlock() on handle h leaves alone: the clock,
\* the context and the other handles
StepOf(h) ==
    /\ now' = now
    /\ ctxDone' = ctxDone
    /\ \A c \in Handles \ {h} : lock'[c] = lock[c]

LockSucceeds(h) ==
    /\ lock'[h].pc = "idle"
    /\ hret'.h = h /\ hret'.op = "Lock" /\ hret'.ok
    /\ StepOf(h) /\ LockAttempt(h)

\* another handle on h's key was granted the key, is not unlocked, and its ttl
\* has not elapsed
HeldByOther(h) ==
    \E a \in Handles \ {h} : lock[a].key = lock[h].key /\ lease[a] # -1

\* C2: exclusive hold across handles. While a handle A was granted key K at
\* time t, has not been unlocked and t + ttl has not come, no attempt of another
\* handle on K succeeds: the attempt changes nothing in the store and either
\* is retried or makes Lock() return contention (a TTLError from Locker.Lock).
C2_ExclusiveHold ==
    [][\A b \in Handles :
         (HeldByOther(b) /\ StepOf(b) /\ LockAttempt(b)) =>
            /\ ~LockSucceeds(b)
            /\ items' = items
            /\ \/ lock'[b].pc = "wait"
               \/ /\ hret'.h = b /\ hret'.op = "Lock" /\ ~hret'.ok /\ hret'.err = "nil"
                  /\ LockerLock(hret').kind = "TTLError"]_vars

\* C2 witness: Lock() on one handle returned contention, some time after the
\* other handle was granted the key, whose grant still runs
C2_Witness ==
    /\ hret.op = "Lock" /\ ~hret.ok /\ hret.err = "nil"
    /\ now > 0
    /\ \E a \in Handles \ {hret.h} : lease[a] > now /\ lock[a].token # ""

\* the key of handle h is stored with the token handle b holds
StoredFor(h, b) ==
    /\ lock[b].token # ""
    /\ lock[h].key \in DOMAIN items
    /\ items[lock[h].key].value = lock[b].token

\* C5: a stale holder cannot release the new holder's lock. While the key is
\* stored with the token of another handle B, Unlock on A returns false and
\* leaves B's entry as it is; Unlock on B, whose token is stored, returns true
\* and removes the entry.
C5_StaleUnlock ==
    [][\A a \in Handles :
         Unlock(a) =>
            /\ (\E b \in Handles \ {a} : StoredFor(a, b))
                  => (hret'.h = a /\ ~hret'.ok /\ hret'.err = "nil" /\ items' = items)
            /\ StoredFor(a, a)
                  => (hret'.h = a /\ hret'.ok /\ lock[a].key \notin DOMAIN items')]_vars

\* C5 witness: Unlock on a handle that still had its token called Del and was
\* refused, and the live entry of the other handle is still stored
C5_Witness ==
    /\ hret.op = "Unlock" /\ hret.del /\ ~hret.ok
    /\ \E b \in Handles \ {hret.h} :
          StoredFor(hret.h, b) /\ Live(items, now, lock[b].key)

\* Lock() on handle b returns contention in this step: (false, ttl, nil)
LockContended(b) ==
    /\ lock'[b].pc = "idle"
    /\ hret'.h = b /\ hret'.op = "Lock" /\ ~hret'.ok /\ hret'.err = "nil"
    /\ StepOf(b)
    /\ LockAttempt(b) \/ LockCancelled(b)

\* C12: on contention the ttl Lock() returns is not greater than the ttl
\* configured for the acquiring handle, whatever ttl the handles on the key
\* were configured with.
C12_ContentionTTLAtMostOwn ==
    [][\A b \in Handles : LockContended(b) => hret'.ttl <= lock[b].ttl]_vars

\* the ttl the attempt of this step observed: returned, or kept for the wait
Observed(b) == IF lock'[b].pc = "wait" THEN lock'[b].lttl ELSE hret'.ttl

\* C12 as it holds: a contended attempt observes a ttl not greater than the
\* ttl configured for the handle whose token is stored (the holder), and a
\* cancelled wait returns the ttl its last attempt observed; so the returned
\* ttl is bounded by the acquirer's own ttl only when the holder's is not larger.
C12_ContentionTTLAtMostHolders ==
    [][\A b \in Handles :
         /\ (StepOf(b) /\ LockAttempt(b) /\ ~LockSucceeds(b)) =>
               \E a \in Handles \ {b} :
                  /\ StoredFor(b, a)
                  /\ Observed(b) <= lock[a].ttl
                  /\ lock[a].ttl <= lock[b].ttl => Observed(b) <= lock[b].ttl
         /\ (lock[b].pc = "cancelled" /\ LockCancelled(b)) =>
               hret'.ttl = lock[b].lttl]_vars

\* C12 witness: Lock() on a handle returned contention with a ttl above its own
\* configured ttl, against a holder configured with a longer one
C12_Witness ==
    /\ hret.op = "Lock" /\ ~hret.ok /\ hret.err = "nil"
    /\ hret.ttl > lock[hret.h].ttl
    /\ \E a \in Handles \ {hret.h} : StoredFor(hret.h, a) /\ hret.ttl <= lock[a].ttl

\* Lock() on handle b returns in this step
LockReturns(b) ==
    /\ lock'[b].pc = "idle"
    /\ hret'.h = b /\ hret'.op = "Lock"
    /\ StepOf(b)
    /\ LockAttempt(b) \/ LockSetError(b) \/ LockCancelled(b)

\* C13: retry bound. One Lock() call makes at most retryCount + 1 gateway.Set
\* calls and waits at most retryCount times; a call whose every Set reports
\* contention and that is not cancelled returns only after exactly
\* retryCount + 1 Set calls, with (false, the ttl of the last Set, nil).
C13_RetryBound ==
    [][\A b \in Handles :
         /\ lock'[b].sets <= lock[b].retryCount + 1
         /\ lock'[b].waits <= lock[b].retryCount
         /\ LockReturns(b) =>
               /\ hret'.sets <= lock[b].retryCount + 1
               /\ hret'.waits <= lock[b].retryCount
         /\ (hret'.line = 271 /\ LockContended(b) /\ LockAttempt(b)) =>
               /\ hret'.sets = lock[b].retryCount + 1
               /\ hret'.waits = lock[b].retryCount
               /\ hret'.ttl = Set(items, now, lock[b].key, Attempting(b).ltoken,
                                  lock[b].ttl).ttl
         /\ (~ctxDone /\ lock[b].sets < lock[b].retryCount
                       /\ StepOf(b) /\ LockAttempt(b) /\ ~LockSucceeds(b)) =>
               lock'[b].pc = "wait"]_vars

\* C13 witness: a Lock() with retries configured ran out of attempts without
\* the context being cancelled, after retryCount + 1 Set calls and retryCount waits
C13_Witness ==
    /\ hret.op = "Lock" /\ ~hret.ok /\ hret.err = "nil" /\ hret.line = 271
    /\ ~ctxDone
    /\ lock[hret.h].retryCount > 0
    /\ hret.sets = lock[hret.h].retryCount + 1
    /\ hret.waits = lock[hret.h].retryCount

\* handle b is blocked in the select of Lock() and its retry timer has not fired
WaitingForTimer(b) == lock[b].pc = "wait" /\ now < lock[b].deadline

\* C14: cancellation during the wait between attempts. When the context is
\* cancelled while Lock() waits for its retry timer, Lock() is woken by Done();
\* its next step is the return of (false, the ttl its last attempt observed,
\* nil), and it makes no further gateway.Set call and leaves the store and the
\* clock-independent state of the handle alone.
C14_CancelDuringWait ==
    [][\A b \in Handles :
         /\ (Cancel /\ WaitingForTimer(b)) => lock'[b].pc = "cancelled"
         /\ lock[b].pc = "cancelled" =>
               \/ lock'[b] = lock[b]
               \/ /\ LockCancelled(b)
                  /\ hret'.h = b /\ hret'.op = "Lock" /\ hret'.line = 285
                  /\ ~hret'.ok /\ hret'.err = "nil"
                  /\ hret'.ttl = lock[b].lttl
                  /\ hret'.sets = lock[b].sets
                  /\ items' = items
                  /\ lock'[b].pc = "idle"
         /\ (lock'[b].pc = "wait" /\ StepOf(b) /\ LockAttempt(b)) =>
               lock'[b].lttl = Set(items, now, lock[b].key, Attempting(b).ltoken,
                                   lock[b].ttl).ttl]_vars

\* C14 witness: a Lock() that was blocked in its wait returned through Done()
\* with the positive ttl its attempt had observed
C14_Witness ==
    /\ hret.op = "Lock" /\ hret.line = 285 /\ ~hret.ok /\ hret.err = "nil"
    /\ ctxDone
    /\ hret.sets >= 1 /\ hret.waits = hret.sets
    /\ hret.ttl > 0

\* C15: cancellation before the call. When the context is already done as
\* Lock() is called, every attempt it makes is its first and only one: the Set
\* runs, its result is what Lock() returns, and on contention Lock() returns
\* after this single Set call, whatever retryCount and retryDelay are.
C15_CancelledBeforeCall ==
    [][\A b \in Handles :
         (LockAttempt(b) /\ lock[b].pc = "idle" /\ ctxDone) =>
            LET r == Set(items, now, lock[b].key, Attempting(b).ltoken, lock[b].ttl) IN
            /\ lock'[b].pc = "idle"
            /\ hret'.h = b /\ hret'.op = "Lock" /\ hret'.err = "nil"
            /\ hret'.ok = r.ok /\ hret'.ttl = r.ttl
            /\ hret'.sets = 1]_vars

\* C16: backend errors are neither retried nor masked. When a gateway.Set call
\* of Lock() returns an error, on the first attempt or on a retry, the last
\* included, Lock() returns at once (false, error) with that same error, makes
\* no further Set call whatever attempts are left, and leaves the store alone.
C16_ErrorsNotRetried ==
    [][\A b \in Handles, e \in GatewayErrors :
         (StepOf(b) /\ LockSetErrorWith(b, e)) =>
            /\ lock'[b].pc = "idle"
            /\ hret'.h = b /\ hret'.op = "Lock"
            /\ ~hret'.ok /\ hret'.err = e
            /\ hret'.sets = lock[b].sets + 1
            /\ items' = items]_vars

\* C16 witness: Lock() returned the gateway's error from its last retry
C16_Witness ==
    /\ hret.op = "Lock" /\ ~hret.ok /\ hret.err \in GatewayErrors
    /\ lock[hret.h].retryCount > 0
    /\ hret.sets = lock[hret.h].retryCount + 1

\* what Locker.Lock has returned, when it was the last call to return: for a
\* key NewLock refuses, (nil, ErrInvalidKey) and no gateway call; else the
\* handle with nil on success, a TTLError carrying the observed milliseconds as
\* a duration on contention, the gateway's error when Set failed; and, when
\* tokenErrors is allowed for, the error of the random source.
LockerLockCases(tokenErrors) ==
    /\ hret.op = "LockInvalidKey" =>
          hret.h = 0 /\ hret.err = "ErrInvalidKey" /\ hret.sets = 0
    /\ hret.op = "Lock" =>
          LET e == LockerLock(hret) IN
          /\ hret.h \in Handles
          /\ \/ e.kind = "nil" /\ hret.ok /\ hret.sets >= 1
             \/ /\ e.kind = "TTLError" /\ ~hret.ok /\ hret.sets >= 1
                /\ e.ttl = hret.ttl * MsTicks
             \/ e.kind \in GatewayErrors /\ ~hret.ok /\ hret.line = 261 /\ hret.sets >= 1
             \/ tokenErrors /\ e.kind = "rand" /\ ~hret.ok /\ hret.sets = 0

\* C17: Locker.Lock(key) returns (nil, ErrInvalidKey) without a gateway call
\* for an over-long effective key, (handle, the gateway's error) when Set
\* failed, (handle, TTLError with the observed milliseconds as a duration) on
\* contention, (handle, nil) on success, and nothing else.
C17_LockerLockOutcomes == LockerLockCases(FALSE)

\* C17 as it holds: the four outcomes, and (handle, the random source's error)
\* when newToken fails, before any gateway call.
C17_LockerLockOutcomesAndTokenError == LockerLockCases(TRUE)

\* C17 witness: Locker.Lock returned a TTLError with a positive ttl on a
\* contended key
C17_Witness ==
    /\ hret.op = "Lock"
    /\ LockerLock(hret).kind = "TTLError"
    /\ LockerLock(hret).ttl >= MsTicks
    /\ Live(items, now, lock[hret.h].key)

\* C18: Unlock is idempotent on the handle. Unlock on a handle with no token
\* returns (false, nil) and does not call gateway.Del; Unlock on a handle with
\* a token calls Del and leaves the handle without one; so of two consecutive
\* Unlock calls after a successful Lock() the first calls Del and the second
\* does not and returns false.
C18_UnlockIdempotent ==
    [][\A a \in Handles :
         Unlock(a) =>
            /\ hret'.h = a /\ hret'.op = "Unlock" /\ hret'.err = "nil"
            /\ lock[a].token = "" => (~hret'.del /\ ~hret'.ok /\ items' = items)
            /\ lock[a].token # "" => (hret'.del /\ lock'[a].token = "")
            /\ (hret.h = a /\ hret.op = "Lock" /\ hret.ok) => hret'.del
            /\ (hret.h = a /\ hret.op = "Unlock") => (~hret'.del /\ ~hret'.ok)]_vars

\* C18 witness: after tokens were drawn, Unlock on a handle that holds no token
\* and whose key is not stored returned false without calling Del
C18_Witness ==
    /\ hret.op = "Unlock" /\ ~hret.del /\ ~hret.ok /\ hret.err = "nil"
    /\ nextToken > 0
    /\ lock[hret.h].token = ""
    /\ lock[hret.h].key \notin DOMAIN items

\* Unlock on handle a returns in this step, Del having answered or failed
Unlocks(a) == Unlock(a) \/ UnlockDelError(a)

\* no handle holds the token the key is stored with, nor is using it in a Lock()
Orphan(k) ==
    /\ k \in DOMAIN items
    /\ \A h \in Handles : lock[h].token # items[k].value /\ lock[h].ltoken # items[k].value

\* C19: every Unlock leaves the handle idle. After Unlock the handle's token is
\* empty whether Del returned true, false or an error; after a Del error the
\* next Unlock on the handle calls Del no more, and the entry the failed Del
\* left stays stored, value and expires-at unchanged, for as long as it is live.
C19_UnlockLeavesIdle ==
    [][/\ \A a \in Handles :
            /\ Unlocks(a) => (lock'[a].token = "" /\ lock'[a].pc = "idle" /\ hret'.h = a)
            /\ (Unlocks(a) /\ hret.h = a /\ hret.op = "Unlock" /\ hret.err # "nil") =>
                  (~hret'.del /\ ~hret'.ok /\ items' = items)
       /\ \A k \in Keys :
            (Orphan(k) /\ Live(items, now, k)) =>
                  (k \in DOMAIN items' /\ items'[k] = items[k])]_vars

\* C19 witness: Del failed, the handle has no token, and its entry is still
\* stored and live, with no handle holding its token
C19_Witness ==
    /\ hret.op = "Unlock" /\ hret.del /\ hret.err # "nil"
    /\ lock[hret.h].token = ""
    /\ Orphan(lock[hret.h].key)
    /\ Live(items, now, lock[hret.h].key)
    /\ now > 0

\* the key of handle a is stored, live, with the token a holds
OwnLiveEntry(a) ==
    /\ lock[a].token # ""
    /\ Live(items, now, lock[a].key)
    /\ items[lock[a].key].value = lock[a].token

\* C20: token reuse for self-refresh. The token a handle holds is the one of
\* its last successful Lock(): it is replaced by no other token, only cleared
\* (by Unlock, or by a Lock() that ran out of attempts). While it is held every
\* Lock() on the handle passes it to gateway.Set and draws no new one, so on a
\* live entry of its own the attempt is a refresh: it succeeds, the entry keeps
\* the token and expires ttl after the call.
C20_TokenReuse ==
    [][\A a \in Handles :
         /\ lock'[a].token # lock[a].token =>
               \/ lock[a].token = "" /\ LockSucceeds(a)
               \/ lock'[a].token = "" /\ (Unlock(a) \/ (LockAttempt(a) /\ hret'.line = 271))
         /\ (lock[a].token # "" /\ StepOf(a) /\ LockAttempt(a)) =>
               /\ Attempting(a).ltoken = lock[a].token
               /\ nextToken' = nextToken
         /\ (OwnLiveEntry(a) /\ StepOf(a) /\ LockAttempt(a)) =>
               /\ LockSucceeds(a)
               /\ hret'.set = 57
               /\ hret'.ttl = lock[a].ttl
               /\ lock'[a].token = lock[a].token
               /\ items'[lock[a].key] =
                      item(lock[a].token, now + lock[a].ttl * MsTicks)]_vars

\* C20 witness: a Lock() on a handle that held the key refreshed its own live
\* entry some time after it had installed it
C20_Witness ==
    /\ hret.op = "Lock" /\ hret.ok /\ hret.set = 57
    /\ now > 0
    /\ OwnLiveEntry(hret.h)
    /\ items[lock[hret.h].key].expiresAt = now + lock[hret.h].ttl * MsTicks

\* ------------------------------------------------------------------ C21
\* C21: handle state machine on failure. Every Lock() that returns
\* (false, ttl, nil), by exhausted retries or by cancellation, from a handle
\* that was idle or held a token, leaves the handle with an empty token.
C21_FailureLeavesIdle ==
    [][\A b \in Handles : LockContended(b) => lock'[b].token = ""]_vars

\* the part of C21 the code keeps: the return after the last retry (line 271)
\* clears the token, and a failed Lock() of a handle without a token leaves it
\* without one
FailureLeavesIdleUnlessCancelledHeld ==
    [][\A b \in Handles :
         (LockContended(b) /\ (hret'.line = 271 \/ lock[b].token = "")) =>
            lock'[b].token = ""]_vars

\* ------------------------------------------------------------------ C22
\* a client of the same gateway that is not one of the handles (another
\* process holding the key under its own value) calls Set on the handles' key
ForeignSet ==
    \E ttl \in HandleTTLs :
       /\ items' = Set(items, now, RaceKey, "a", ttl).items
       /\ UNCHANGED <<now, ret, raceVars, redisVars, fnVars, serialVars, variantVars, lockVars>>

\* the handle whose calls are followed while that client contends for its key
Caller == CHOOSE h \in Handles : \A g \in Handles : h <= g

\* one handle, with such a client contending for its key
NextLockForeign ==
    \/ LockTokenError(Caller)
    \/ LockAttempt(Caller)
    \/ LockSetError(Caller)
    \/ LockCancelled(Caller)
    \/ Cancel
    \/ Unlock(Caller)
    \/ ForeignSet
    \/ Sweep
    \/ LockTick

SpecLockForeign == InitLock /\ [][NextLockForeign]_vars

\* the tokens newToken has handed out so far
Drawn == {newToken(i) : i \in 1..nextToken}

\* Unlock (line 302) or the retry-exhausted return of Lock() (line 271) clears
\* a token the handle carried
Clears(a) ==
    /\ lock[a].token # "" /\ lock'[a].token = ""
    /\ hret'.h = a
    /\ \/ hret'.op = "Unlock"
       \/ hret'.op = "Lock" /\ hret'.line = 271

\* C22: fresh token after the token is cleared. The token Unlock or a
\* retry-exhausted Lock() clears is one drawn earlier and stays drawn; a Lock()
\* called on a handle whose token is empty draws once from the random source
\* and passes the gateway, in its first attempt and in every retry, a token
\* that was never drawn before, so never the token that was cleared.
C22_FreshTokenAfterClear ==
    [][/\ nextToken' >= nextToken
       /\ \A a \in Handles :
            /\ lock[a].token # "" => lock[a].token \in Drawn
            /\ Clears(a) => lock[a].token \in Drawn
            /\ (DrawsToken(a) /\ StepOf(a) /\ (LockAttempt(a) \/ LockSetError(a))) =>
                  /\ nextToken' = nextToken + 1
                  /\ Attempting(a).ltoken \notin Drawn \cup {""}
                  /\ LockSucceeds(a) =>
                        /\ lock'[a].token = Attempting(a).ltoken
                        /\ items'[lock[a].key].value = Attempting(a).ltoken
                  /\ lock'[a].pc = "wait" => lock'[a].ltoken = Attempting(a).ltoken
            /\ (lock[a].pc = "wait" /\ StepOf(a) /\ LockAttempt(a)) =>
                  /\ nextToken' = nextToken
                  /\ Attempting(a).ltoken = lock[a].ltoken
                  /\ LockSucceeds(a) => items'[lock[a].key].value = lock[a].ltoken
                  /\ lock'[a].pc = "wait" => lock'[a].ltoken = lock[a].ltoken]_vars

\* C22 witness: the last call that returned on a handle was an Unlock that
\* cleared its token and called Del, and the next Lock() on it is waiting to
\* retry with a token drawn after that
C22_Witness ==
    \E a \in Handles :
       /\ hret.h = a
       /\ hret.op = "Unlock" /\ hret.del
       /\ lock[a].pc = "wait"
       /\ lock[a].token = ""
       /\ lock[a].ltoken = newToken(nextToken)
       /\ nextToken >= 2

\* ------------------------------------------------------- NewLocker, options
\* how many options one NewLocker call is given
MaxOptions == 3

\* the time.Duration values a caller passes, in ticks: under 1 ms, 1 ms,
\* 1 ms and a fraction, 2 ms
Durations == {MsTicks - 1, MsTicks, MsTicks + 1, 2 * MsTicks}

\* the values WithRetryCount is given
RetryCounts == {-1, 0, MaxRetry}

\* the options, as <<name, value>>
Options ==
    ({"WithRetryCount"} \X RetryCounts)
        \cup ({"WithRetryDelay", "WithRetryJitter"} \X Durations)

OptionLists == UNION {[1..n -> Options] : n \in 0..MaxOptions}

\* WithRetryDelay that does not compare the delay with the jitter already set
WithRetryDelayUnchecked(l, v) ==
    IF v < MsTicks THEN [l EXCEPT !.err = "ErrInvalidRetryDelay"]
    ELSE [l EXCEPT !.retryDelay = durationToMilliseconds(v)]

\* WithRetryCount (locker.go:50-58), applied to the Locker l
WithRetryCount(l, v) ==
    IF v < 0 THEN [l EXCEPT !.err = "ErrInvalidRetryCount"]
    ELSE [l EXCEPT !.retryCount = v]

\* WithRetryDelay (locker.go:64-75): the field is assigned before it is
\* compared with retryJitter
WithRetryDelay(l, v) ==
    IF v < MsTicks THEN [l EXCEPT !.err = "ErrInvalidRetryDelay"]
    ELSE LET n == [l EXCEPT !.retryDelay = durationToMilliseconds(v)]
         IN  IF n.retryDelay < n.retryJitter
             THEN [n EXCEPT !.err = "ErrInvalidRetryDelay"]
             ELSE n

\* WithRetryJitter (locker.go:82-93)
WithRetryJitter(l, v) ==
    IF v < MsTicks THEN [l EXCEPT !.err = "ErrInvalidRetryJitter"]
    ELSE LET n == [l EXCEPT !.retryJitter = durationToMilliseconds(v)]
         IN  IF n.retryJitter > n.retryDelay
             THEN [n EXCEPT !.err = "ErrInvalidRetryJitter"]
             ELSE n

\* fn(lr) for the option o
option(l, o) ==
    CASE o[1] = "WithRetryCount" -> WithRetryCount(l, o[2])
      [] o[1] = "WithRetryDelay" -> WithRetryDelay(l, o[2])
      [] o[1] = "WithRetryJitter" -> WithRetryJitter(l, o[2])

\* the loop of NewLocker (locker.go:128-133) from option i on: the first error
\* ends it
RECURSIVE applyOptions(_, _)
applyOptions(l, i) ==
    IF i > Len(l.args.options) THEN [l EXCEPT !.next = i]
    ELSE LET n == option(l, l.args.options[i])
         IN  IF n.err # "nil" THEN [n EXCEPT !.next = i]
             ELSE applyOptions(n, i + 1)

\* NewLocker (locker.go:120-135)
NewLocker(ttl, options) ==
    LET called == [NoLocker EXCEPT !.pc = "done",
                                   !.args = [ttl |-> ttl, options |-> options]]
    IN  IF ttl < MsTicks THEN [called EXCEPT !.err = "ErrInvalidTTL"]
        ELSE applyOptions([called EXCEPT !.ttl = durationToMilliseconds(ttl)], 1)

\* NewLocker is called and returns
NewLockerCall ==
    /\ lr.pc = "none"
    /\ \E ttl \in Durations, options \in OptionLists : lr' = NewLocker(ttl, options)
    /\ UNCHANGED <<now, items, ret, raceVars, redisVars, lockVars, dly, serialVars, variantVars>>

NextOptions == NewLockerCall

\* NewLocker called on its own
SpecOptions == Init /\ [][NextOptions]_vars

\* the option list names the option
Passes(options, name) == \E i \in DOMAIN options : options[i][1] = name

\* no option is passed twice
Once(options) ==
    \A i, j \in DOMAIN options : options[i][1] = options[j][1] => i = j

\* the value the list gives the option, in the unit the Locker keeps it in
\* (the default 0 when the option is not passed)
Requested(options, name) ==
    IF Passes(options, name)
    THEN LET v == options[CHOOSE i \in DOMAIN options : options[i][1] = name][2]
         IN  IF name = "WithRetryCount" THEN v ELSE durationToMilliseconds(v)
    ELSE 0

\* the errors of the parameters that the configuration violates
Violated(args) ==
    LET o == args.options
        count == Requested(o, "WithRetryCount")
        delay == Requested(o, "WithRetryDelay")
        jitter == Requested(o, "WithRetryJitter")
    IN  {e \in {"ErrInvalidTTL", "ErrInvalidRetryCount", "ErrInvalidRetryDelay",
                "ErrInvalidRetryJitter"} :
           \/ e = "ErrInvalidTTL" /\ args.ttl < MsTicks
           \/ e = "ErrInvalidRetryCount" /\ count < 0
           \/ e = "ErrInvalidRetryDelay" /\ Passes(o, "WithRetryDelay")
                 /\ (delay < 1 \/ delay < jitter)
           \/ e = "ErrInvalidRetryJitter" /\ Passes(o, "WithRetryJitter")
                 /\ (jitter < 1 \/ jitter > delay)}

\* C23: NewLocker accepts a configuration (each option passed at most once, in
\* any order) exactly when ttl >= 1 ms, retryCount >= 0 and, when set,
\* 1 ms <= retryJitter <= retryDelay (and retryDelay >= 1 ms), and rejects
\* every other with the error of a parameter the configuration violates.
C23_NewLockerValidates ==
    (lr.pc = "done" /\ Once(lr.args.options)) =>
        /\ lr.err = "nil" <=> Violated(lr.args) = {}
        /\ lr.err # "nil" => lr.err \in Violated(lr.args)

\* WithRetryJitter is not passed ahead of WithRetryDelay
DelayFirst(options) ==
    \A i, j \in DOMAIN options :
       (options[i][1] = "WithRetryJitter" /\ options[j][1] = "WithRetryDelay") => j < i

\* what holds of C23: the same, for the calls that pass the delay before the
\* jitter
NewLockerValidatesDelayFirst ==
    (lr.pc = "done" /\ Once(lr.args.options) /\ DelayFirst(lr.args.options)) =>
        /\ lr.err = "nil" <=> Violated(lr.args) = {}
        /\ lr.err # "nil" => lr.err \in Violated(lr.args)


\* ------------------------------------------------------------------ C24
\* the Locker as the options up to (not including) option i of the call leave it
RECURSIVE lockerBefore(_, _)
lockerBefore(l, i) ==
    IF i <= 1 THEN [l EXCEPT !.retryCount = 0, !.retryDelay = 0, !.retryJitter = 0,
                             !.err = "nil"]
    ELSE option(lockerBefore(l, i - 1), l.args.options[i - 1])

\* C24: every Locker that NewLocker returns without error, whatever options it
\* was given and however often, has ttl >= 1, retryCount >= 0 and
\* retryJitter <= retryDelay; and a WithRetryDelay that is reached and would put
\* the delay under the jitter set so far ends the call with ErrInvalidRetryDelay.
C24_LockerInvariant ==
    lr.pc = "done" =>
        /\ lr.err = "nil" =>
              /\ lr.ttl >= 1
              /\ lr.retryCount >= 0
              /\ lr.retryJitter <= lr.retryDelay
              /\ lr.next = Len(lr.args.options) + 1
        /\ \A i \in DOMAIN lr.args.options :
              (/\ i <= lr.next
               /\ lr.args.ttl >= MsTicks
               /\ lr.args.options[i][1] = "WithRetryDelay"
               /\ durationToMilliseconds(lr.args.options[i][2])
                     < lockerBefore(lr, i).retryJitter) =>
                 /\ lr.err = "ErrInvalidRetryDelay"
                 /\ lr.next = i

\* C24 witness: a call that set the delay, then a jitter within it, then passed
\* a smaller delay, all of 1 ms or more, was refused with ErrInvalidRetryDelay
C24_Witness ==
    /\ lr.pc = "done"
    /\ lr.err = "ErrInvalidRetryDelay"
    /\ lr.next = 3
    /\ lr.args.options[1][1] = "WithRetryDelay"
    /\ lr.args.options[2][1] = "WithRetryJitter"
    /\ lr.args.options[3][1] = "WithRetryDelay"
    /\ lr.args.options[3][2] >= MsTicks
    /\ lr.retryJitter >= 1


\* ------------------------------------------------------------------ C25
\* the largest retryDelay and retryJitter newDelay is called with
MaxDelay == 5

\* newDelay of lock.go:110-115, on float64: random.Float64() is in [0, 1), so
\* math.Floor((random.Float64()*2-1)*retryJitter) is one of -retryJitter ..
\* retryJitter - 1, and math.Max(0, .) lifts a negative sum to 0
newDelayFloat(retryDelay, retryJitter) ==
    IF retryJitter = 0 THEN {retryDelay}
    ELSE {IF retryDelay + k < 0 THEN 0 ELSE retryDelay + k :
             k \in (-retryJitter)..(retryJitter - 1)}

\* newDelay of delay.go is called and returns
newDelayCall ==
    /\ dly.pc = "none"
    /\ \E retryDelay \in 0..MaxDelay, retryJitter \in 0..MaxDelay :
          \E v \in newDelay(retryDelay, retryJitter) :
             dly' = [pc |-> "done", fn |-> "delay.go", retryDelay |-> retryDelay,
                     retryJitter |-> retryJitter, v |-> v]
    /\ UNCHANGED <<now, items, ret, raceVars, redisVars, lockVars, lr, serialVars, variantVars>>

\* newDelay of lock.go is called and returns
newDelayFloatCall ==
    /\ dly.pc = "none"
    /\ \E retryDelay \in 0..MaxDelay, retryJitter \in 0..MaxDelay :
          \E v \in newDelayFloat(retryDelay, retryJitter) :
             dly' = [pc |-> "done", fn |-> "lock.go", retryDelay |-> retryDelay,
                     retryJitter |-> retryJitter, v |-> v]
    /\ UNCHANGED <<now, items, ret, raceVars, redisVars, lockVars, lr, serialVars, variantVars>>

NextDelay == newDelayCall \/ newDelayFloatCall

\* newDelay called on its own
SpecDelay == Init /\ [][NextDelay]_vars

\* C25: jitter range. For 0 <= J <= D every value newDelay(D, J) returns lies
\* in [max(0, D - J), D + J], and newDelay(D, 0) returns D.
C25_JitterRange ==
    (dly.pc = "done" /\ dly.retryJitter <= dly.retryDelay) =>
        /\ dly.v >= 0
        /\ dly.v >= dly.retryDelay - dly.retryJitter
        /\ dly.v <= dly.retryDelay + dly.retryJitter
        /\ dly.retryJitter = 0 => dly.v = dly.retryDelay

\* C25 witness: newDelay of delay.go, given a jitter of 1 or more and under the
\* delay, returned the largest value of the range
C25_Witness ==
    /\ dly.pc = "done" /\ dly.fn = "delay.go"
    /\ dly.retryJitter >= 1 /\ dly.retryJitter < dly.retryDelay
    /\ dly.v = dly.retryDelay + dly.retryJitter


\* ------------------------------------------------------------------ C26
\* the live part of the store: what a run of the sweeper at t leaves
swept(s, t) == deleteExpired(s, t)

\* C26: the results of Set and Del do not depend on the sweeper. A call made
\* right after a run of the sweeper returns what the same call returns without
\* that run, and leaves the same live entries; so two runs of the same calls
\* at the same times return the same results wherever the sweeper runs.
C26_SweeperIndependence ==
    [][/\ \A k \in Keys, v \in Values, ttl \in TTLs :
            SetCall(k, v, ttl) =>
               LET r == Set(swept(items, now), now, k, v, ttl)
               IN  /\ ret'.ok = r.ok /\ ret'.rttl = r.ttl
                   /\ swept(items', now) = swept(r.items, now)
       /\ \A k \in Keys, v \in Values :
            DelCall(k, v) =>
               LET r == Del(swept(items, now), k, v)
               IN  /\ ret'.ok = r.ok
                   /\ swept(items', now) = swept(r.items, now)]_vars

\* the part of C26 that holds: Set returns the same with and without the sweeper
SetSweeperIndependent ==
    [][\A k \in Keys, v \in Values, ttl \in TTLs :
          SetCall(k, v, ttl) =>
             LET r == Set(swept(items, now), now, k, v, ttl)
             IN  /\ ret'.ok = r.ok /\ ret'.rttl = r.ttl
                 /\ swept(items', now) = swept(r.items, now)]_vars


\* ------------------------------------------------------------------ C27
\* no other handle on h's key has a grant that still runs: each was never
\* granted the key, has unlocked it, or its ttl has elapsed since its last
\* successful Lock()
NoneHolds(h) ==
    \A a \in Handles \ {h} : lock[a].key = lock[h].key => lease[a] = -1

\* C27: a lock is never stuck. When the ttl of the last grant on the key has
\* elapsed and the holder has neither refreshed nor released it, the next
\* attempt of another handle installs its token and Lock() succeeds, whether
\* the sweeper has removed the expired entry or not.
C27_NeverStuck ==
    [][\A b \in Handles :
         (NoneHolds(b) /\ StepOf(b) /\ LockAttempt(b)) =>
            /\ LockSucceeds(b)
            /\ hret'.ttl = lock[b].ttl
            /\ items'[lock[b].key] =
                  item(lock'[b].token, now + lock[b].ttl * MsTicks)]_vars

\* C27 witness: a handle that was granted the key and never unlocked it still
\* carries its token, its ttl is over, and the other handle's Lock() installed
\* its own token (memory.go:62-66) and succeeded
C27_Witness ==
    \E a, b \in Handles :
       /\ a # b /\ lock[a].key = lock[b].key
       /\ lock[a].token # "" /\ lease[a] = -1
       /\ hret.h = b /\ hret.op = "Lock" /\ hret.ok /\ hret.set = 66
       /\ lock[b].token # lock[a].token
       /\ items[lock[b].key].value = lock[b].token


\* ------------------------------------------- one handle, concurrent callers
\* lk.mutex.Lock() that does not wait for the mutex
lkMutexLockFree(g) == lkmutex' = g

\* lk.mutex.Lock() (locker.go:244, 294)
lkMutexLock(g) == lkmutex = 0 /\ lkmutex' = g

\* the deferred lk.mutex.Unlock() of a call that returns
lkMutexUnlock(g) == lkmutex' = IF lkmutex = g THEN 0 ELSE lkmutex

\* goroutine g calls Lock() or Unlock() on the handle; it is not past
\* lk.mutex.Lock() yet
SerialCall(g, op) ==
    /\ gor[g].pc \in {"idle", "done"}
    /\ op = "Lock" => nextToken < MaxTokens
    /\ gor' = [gor EXCEPT ![g] = [NoCall EXCEPT !.pc = "mutex", !.op = op]]
    /\ UNCHANGED <<now, items, ret, raceVars, redisVars, lockVars, fnVars, variantVars, lkmutex>>

\* locker.go:244 / 294: g gets lk.mutex
SerialEnter(g) ==
    /\ gor[g].pc = "mutex"
    /\ lkMutexLock(g)
    /\ gor' = [gor EXCEPT ![g].pc = IF gor[g].op = "Lock" THEN "token" ELSE "check"]
    /\ UNCHANGED <<now, items, ret, raceVars, redisVars, lockVars, fnVars, variantVars>>

\* locker.go:247-256: Lock() reads lk.token, draws a token when it is empty,
\* and sets counter
SerialLockToken(g) ==
    LET l == lock[Caller] IN
    /\ gor[g].pc = "token"
    /\ gor' = [gor EXCEPT ![g].pc = "set",
                          ![g].token = IF l.token = "" THEN newToken(nextToken + 1)
                                                        ELSE l.token,
                          ![g].counter = l.retryCount]
    /\ nextToken' = IF l.token = "" THEN nextToken + 1 ELSE nextToken
    /\ UNCHANGED <<now, items, ret, raceVars, redisVars, fnVars, variantVars, lkmutex,
                   lock, hret, ctxDone, lease>>

\* locker.go:259-287: gateway.Set and what Lock() decides on its result, up to
\* the assignment to lk.token or the wait for the timer
SerialLockSet(g) ==
    LET l == lock[Caller]
        r == Set(items, now, l.key, gor[g].token, l.ttl)
    IN  /\ gor[g].pc = "set"
        /\ items' = r.items
        /\ \/ /\ r.ok
              /\ gor' = [gor EXCEPT ![g].pc = "assign", ![g].ttl = r.ttl, ![g].ok = TRUE]
           \/ /\ ~r.ok /\ exhausted(gor[g].counter)
              /\ gor' = [gor EXCEPT ![g].pc = "clear", ![g].ttl = r.ttl]
           \/ /\ ~r.ok /\ ~exhausted(gor[g].counter)
              /\ \E d \in newDelay(l.retryDelay, l.retryJitter) :
                    gor' = [gor EXCEPT ![g].pc = "wait", ![g].ttl = r.ttl,
                                       ![g].counter = gor[g].counter - 1,
                                       ![g].deadline = now + d * MsTicks]
        /\ UNCHANGED <<now, ret, raceVars, redisVars, lockVars, fnVars, variantVars, lkmutex>>

\* locker.go:283-287, case <-timer.C: the next attempt follows
SerialLockTimer(g) ==
    /\ gor[g].pc = "wait"
    /\ now >= gor[g].deadline
    /\ gor' = [gor EXCEPT ![g].pc = "set"]
    /\ UNCHANGED <<now, items, ret, raceVars, redisVars, lockVars, fnVars, variantVars, lkmutex>>

\* locker.go:265-266 and 270-271: lk.token is assigned, Lock() returns and the
\* deferred lk.mutex.Unlock() runs
SerialLockReturn(g) ==
    /\ gor[g].pc \in {"assign", "clear"}
    /\ lock' = [lock EXCEPT ![Caller].token =
                   IF gor[g].pc = "assign" THEN gor[g].token ELSE ""]
    /\ gor' = [gor EXCEPT ![g].pc = "done"]
    /\ lkMutexUnlock(g)
    /\ UNCHANGED <<now, items, ret, raceVars, redisVars, fnVars, variantVars,
                   hret, nextToken, ctxDone, lease>>

\* locker.go:297-301: Unlock() reads lk.token; it returns (false, nil) when it
\* is empty
SerialUnlockCheck(g) ==
    /\ gor[g].pc = "check"
    /\ IF lock[Caller].token = ""
       THEN /\ gor' = [gor EXCEPT ![g].pc = "done"]
            /\ lkMutexUnlock(g)
       ELSE /\ gor' = [gor EXCEPT ![g].pc = "del", ![g].token = lock[Caller].token]
            /\ UNCHANGED lkmutex
    /\ UNCHANGED <<now, items, ret, raceVars, redisVars, lockVars, fnVars, variantVars>>

\* locker.go:302-303: lk.token is cleared, gateway.Del called, Unlock() returns
\* and the deferred lk.mutex.Unlock() runs
SerialUnlockDel(g) ==
    LET r == Del(items, lock[Caller].key, gor[g].token) IN
    /\ gor[g].pc = "del"
    /\ lock' = [lock EXCEPT ![Caller].token = ""]
    /\ items' = r.items
    /\ gor' = [gor EXCEPT ![g].pc = "done", ![g].ok = r.ok]
    /\ lkMutexUnlock(g)
    /\ UNCHANGED <<now, ret, raceVars, redisVars, fnVars, variantVars,
                   hret, nextToken, ctxDone, lease>>

NextSerial ==
    \/ \E g \in Goroutines, op \in {"Lock", "Unlock"} : SerialCall(g, op)
    \/ \E g \in Goroutines : SerialEnter(g)
    \/ \E g \in Goroutines : SerialLockToken(g)
    \/ \E g \in Goroutines : SerialLockSet(g)
    \/ \E g \in Goroutines : SerialLockTimer(g)
    \/ \E g \in Goroutines : SerialLockReturn(g)
    \/ \E g \in Goroutines : SerialUnlockCheck(g)
    \/ \E g \in Goroutines : SerialUnlockDel(g)
    \/ ForeignSet
    \/ Tick

\* the handle Caller, of a Locker that retries, called from the goroutines
InitSerial ==
    /\ InitLock
    /\ \A h \in Handles : lock[h].ttl = lock[Caller].ttl

SpecSerial == InitSerial /\ [][NextSerial]_vars

\* the goroutines past lk.mutex.Lock() in a call that has not returned
Inside == {g \in Goroutines : gor[g].pc \notin {"idle", "mutex", "done"}}


\* C28: operations on one handle are serialized. At most one of the concurrent
\* Lock() and Unlock() calls on a handle is past lk.mutex.Lock() at a time, and
\* only that call makes gateway calls for the handle or assigns lk.token; an
\* Unlock() issued while a Lock() is in its retry loop stays at lk.mutex.Lock()
\* until that Lock() has returned. The calls thus take effect one whole call
\* after the other, in the order they get the mutex.
C28_Serialized ==
    [][/\ Cardinality(Inside') <= 1
       /\ Inside' \subseteq {lkmutex'}
       /\ \A g \in Goroutines :
            /\ (g \in Inside /\ gor'[g] # gor[g]) =>
                  /\ lkmutex = g
                  /\ \A u \in Goroutines \ {g} : gor'[u] = gor[u]
            /\ (g \in Inside /\ gor[g].op = "Lock") =>
                  /\ \A u \in Goroutines \ {g} :
                        /\ u \notin Inside'
                        /\ gor[u].pc = "mutex" => gor'[u].pc = "mutex"
                  /\ lock'[Caller].token # lock[Caller].token => SerialLockReturn(g)
       /\ lock'[Caller].token # lock[Caller].token =>
             \E g \in Inside : lkmutex = g /\ gor'[g].pc = "done"]_vars

\* C28 witness: a Lock() on a handle that carries a token waits in its retry
\* loop, holding lk.mutex, while an Unlock() of another goroutine has been
\* called and stands at lk.mutex.Lock()
C28_Witness ==
    \E g, u \in Goroutines :
       /\ gor[g].op = "Lock" /\ gor[g].pc = "wait" /\ lkmutex = g
       /\ gor[u].op = "Unlock" /\ gor[u].pc = "mutex"
       /\ lock[Caller].token # ""


\* ------------------------------------------------- the Redis gateway alone
\* what set.Run(...).Result() hands Gateway.Set: res, a reply of the Redis
\* type named, and err, the client's error
intReply(v) == [type |-> "int64", v |-> v]
stringReply == [type |-> "string", v |-> 0]

\* the errors of the Redis client (connection lost, script failed)
ClientErrors == {"io"}

\* Gateway.Set (redis.go:54-74) on what the client hands it
GatewaySet(res, err, ttl) ==
    IF err # "nil" THEN [ok |-> FALSE, rttl |-> 0, err |-> err]
    ELSE IF res.type # "int64"
         THEN [ok |-> FALSE, rttl |-> 0, err |-> "ErrInvalidResponse"]
         ELSE RedisSet(res.v, ttl)

\* Gateway.Set is called, the set script runs and replies
GatewaySetCall(key, value, ttl) ==
    LET q == setScript(rdb, now, key, value, ttl) IN
    /\ rdb' = q.db
    /\ rret' = GatewaySet(intReply(q.reply), "nil", ttl)
    /\ UNCHANGED <<now, items, ret, raceVars, lockVars, fnVars, serialVars, variantVars>>

\* Gateway.Set is called and the reply that comes back is not an integer
GatewaySetInvalidResponse(ttl) ==
    /\ rret' = GatewaySet(stringReply, "nil", ttl)
    /\ UNCHANGED <<now, items, ret, raceVars, lockVars, fnVars, serialVars, variantVars, rdb>>

\* Gateway.Set is called and the client fails
GatewaySetClientError(ttl, e) ==
    /\ rret' = GatewaySet(intReply(0), e, ttl)
    /\ UNCHANGED <<now, items, ret, raceVars, lockVars, fnVars, serialVars, variantVars, rdb>>

\* another user of the Redis server writes the key with no expiry (SET key value)
PlainSet(key, value) ==
    /\ rdb' = store(rdb, key, [value |-> value, when |-> NoExpiry])
    /\ UNCHANGED <<now, items, ret, raceVars, lockVars, fnVars, serialVars, variantVars, rret>>

\* a key of the Redis server is deleted (DEL key)
PlainDel(key) ==
    /\ key \in DOMAIN rdb
    /\ rdb' = delete(rdb, key)
    /\ UNCHANGED <<now, items, ret, raceVars, lockVars, fnVars, serialVars, variantVars, rret>>

NextRedis ==
    \/ \E k \in Keys, v \in Values, ttl \in LockTTLs : GatewaySetCall(k, v, ttl)
    \/ \E ttl \in LockTTLs : GatewaySetInvalidResponse(ttl)
    \/ \E ttl \in LockTTLs, e \in ClientErrors : GatewaySetClientError(ttl, e)
    \/ \E k \in Keys : PlainSet(k, "c")
    \/ \E k \in Keys : PlainDel(k)
    \/ Tick

SpecRedis == Init /\ [][NextRedis]_vars

\* C29: Gateway.Set of the Redis gateway classifies the reply completely: -2
\* gives (true, the ttl asked for, nil), a positive integer (false, that
\* integer, nil), -1 ErrKeyNameClash, a non-integer ErrInvalidResponse, and a
\* client error is returned as it is; and a result (false, ttl, nil) always has
\* ttl > 0.
C29_ReplyClassified ==
    [][/\ \A k \in Keys, v \in Values, ttl \in LockTTLs :
            GatewaySetCall(k, v, ttl) =>
               LET reply == setScript(rdb, now, k, v, ttl).reply
               IN  /\ reply = -2 => rret' = [ok |-> TRUE, rttl |-> ttl, err |-> "nil"]
                   /\ reply > 0 => rret' = [ok |-> FALSE, rttl |-> reply, err |-> "nil"]
                   /\ reply = -1 => (~rret'.ok /\ rret'.err = "ErrKeyNameClash")
                   /\ (~rret'.ok /\ rret'.err = "nil") => rret'.rttl > 0
       /\ \A ttl \in LockTTLs :
            /\ GatewaySetInvalidResponse(ttl) =>
                  (~rret'.ok /\ rret'.err = "ErrInvalidResponse")
            /\ \A e \in ClientErrors :
                  GatewaySetClientError(ttl, e) => (~rret'.ok /\ rret'.err = e)]_vars

\* the part of C29 that holds: the same classification, with a ttl of 0 or
\* more on (false, ttl, nil)
ReplyClassifiedNonNegative ==
    [][/\ \A k \in Keys, v \in Values, ttl \in LockTTLs :
            GatewaySetCall(k, v, ttl) =>
               LET reply == setScript(rdb, now, k, v, ttl).reply
               IN  /\ reply = -2 => rret' = [ok |-> TRUE, rttl |-> ttl, err |-> "nil"]
                   /\ reply > 0 => rret' = [ok |-> FALSE, rttl |-> reply, err |-> "nil"]
                   /\ reply = -1 => (~rret'.ok /\ rret'.err = "ErrKeyNameClash")
                   /\ (~rret'.ok /\ rret'.err = "nil") => rret'.rttl >= 0
       /\ \A ttl \in LockTTLs :
            /\ GatewaySetInvalidResponse(ttl) =>
                  (~rret'.ok /\ rret'.err = "ErrInvalidResponse")
            /\ \A e \in ClientErrors :
                  GatewaySetClientError(ttl, e) => (~rret'.ok /\ rret'.err = e)]_vars


\* ------------------------------------- the Redis-backed variants of the lock
\* a script that ends in `return nil`
nilReply == [type |-> "nil", v |-> 0]

\* Script.Run(...).Result() of go-redis: a nil reply comes back as the error
\* redis.Nil
cmdResult(reply) ==
    [res |-> reply, err |-> IF reply.type = "nil" THEN "redis.Nil" ELSE "nil"]

\* lock.lua: -3 on install, -4 on refresh, else the pttl of the key
lockscr(db, t, key, token, ttl) ==
    IF ~redisExists(db, t, key)
    THEN [reply |-> intReply(-3),
          db |-> store(db, key, [value |-> token, when |-> t + ttl * MsTicks])]
    ELSE IF db[key].value = token
         THEN [reply |-> intReply(-4), db |-> [db EXCEPT ![key].when = t + ttl * MsTicks]]
         ELSE [reply |-> intReply(redisPttl(db, t, key)), db |-> db]

\* Result.OK
OK(r) == r < -2

\* Lock.Lock of the variant with lock.lua: (Result, error)
LockLock(res, err) ==
    IF err # "nil" THEN [ok |-> OK(0), rttl |-> 0, err |-> err]
    ELSE IF res.type # "int64"
         THEN [ok |-> OK(0), rttl |-> 0, err |-> "ErrUnexpectedRedisResponse"]
         ELSE [ok |-> OK(res.v), rttl |-> res.v, err |-> "nil"]

\* the insert script: set nx px, the pttl of the key when it exists
insert(db, t, key, value, ttl) ==
    IF ~redisExists(db, t, key)
    THEN [reply |-> nilReply,
          db |-> store(db, key, [value |-> value, when |-> t + ttl * MsTicks])]
    ELSE [reply |-> intReply(redisPttl(db, t, key)), db |-> db]

\* the upsert script: refresh on the same value, install on no key, else pttl
upsert(db, t, key, value, ttl) ==
    IF redisExists(db, t, key) /\ db[key].value = value
    THEN [reply |-> nilReply, db |-> [db EXCEPT ![key].when = t + ttl * MsTicks]]
    ELSE IF ~redisExists(db, t, key)
         THEN [reply |-> nilReply,
               db |-> store(db, key, [value |-> value, when |-> t + ttl * MsTicks])]
         ELSE [reply |-> intReply(redisPttl(db, t, key)), db |-> db]

\* Storage.Insert and Storage.Upsert, the same body: (i, err), with ok the
\* `i == -1` by which the lock reads a success
StorageInsert(res, err) ==
    IF err = "redis.Nil" THEN [ok |-> TRUE, rttl |-> -1, err |-> "nil"]
    ELSE IF err # "nil" THEN [ok |-> FALSE, rttl |-> -2, err |-> err]
    ELSE IF res.type # "int64"
         THEN [ok |-> FALSE, rttl |-> -2, err |-> "ErrInvalidResponse"]
         ELSE IF res.v = -1
              THEN [ok |-> FALSE, rttl |-> -2, err |-> "ErrKeyNameClash"]
              ELSE [ok |-> res.v = -1, rttl |-> res.v, err |-> "nil"]

\* Lock.Lock of the variant with lock.lua is called
LockLockCall(key, token, ttl) ==
    LET q == lockscr(rdb, now, key, token, ttl)
        c == cmdResult(q.reply)
    IN  /\ rdb' = q.db
        /\ rret' = LockLock(c.res, c.err)
        /\ UNCHANGED <<now, items, ret, raceVars, lockVars, fnVars, serialVars, variantVars>>

\* Storage.Insert is called
StorageInsertCall(key, value, ttl) ==
    LET q == insert(rdb, now, key, value, ttl)
        c == cmdResult(q.reply)
    IN  /\ rdb' = q.db
        /\ rret' = StorageInsert(c.res, c.err)
        /\ UNCHANGED <<now, items, ret, raceVars, lockVars, fnVars, serialVars, variantVars>>

\* Storage.Upsert is called
StorageUpsertCall(key, value, ttl) ==
    LET q == upsert(rdb, now, key, value, ttl)
        c == cmdResult(q.reply)
    IN  /\ rdb' = q.db
        /\ rret' = StorageInsert(c.res, c.err)
        /\ UNCHANGED <<now, items, ret, raceVars, lockVars, fnVars, serialVars, variantVars>>

NextVariants ==
    \/ \E k \in Keys, v \in Values, ttl \in LockTTLs : GatewaySetCall(k, v, ttl)
    \/ \E k \in Keys, v \in Values, ttl \in LockTTLs : LockLockCall(k, v, ttl)
    \/ \E k \in Keys, v \in Values, ttl \in LockTTLs : StorageInsertCall(k, v, ttl)
    \/ \E k \in Keys, v \in Values, ttl \in LockTTLs : StorageUpsertCall(k, v, ttl)
    \/ \E k \in Keys, v \in Values : PlainSet(k, v)
    \/ \E k \in Keys : PlainDel(k)
    \/ Tick

SpecVariants == Init /\ [][NextVariants]_vars

\* the key exists without a TTL and holds a value other than v
Clash(k, v) ==
    k \in DOMAIN rdb /\ rdb[k].when = NoExpiry /\ rdb[k].value # v

\* the call returned an error of key name clash and no success
ClashReported == ~rret'.ok /\ rret'.err = "ErrKeyNameClash"

\* C30: in every Redis-backed variant of the lock, acquiring a key that exists
\* without a TTL and holds a different value is reported as an error (key name
\* clash), never as contention with a TTL and never as success.
C30_ClashIsAnError ==
    [][\A k \in Keys, v \in Values, ttl \in LockTTLs :
          Clash(k, v) =>
             /\ GatewaySetCall(k, v, ttl) => ClashReported
             /\ StorageInsertCall(k, v, ttl) => ClashReported
             /\ StorageUpsertCall(k, v, ttl) => ClashReported
             /\ LockLockCall(k, v, ttl) => ClashReported]_vars

\* the part of C30 that holds: Gateway.Set, Storage.Insert and Storage.Upsert
\* report the clash as ErrKeyNameClash, and no variant reports it as a success
ClashIsAnErrorAtTheGateways ==
    [][\A k \in Keys, v \in Values, ttl \in LockTTLs :
          Clash(k, v) =>
             /\ GatewaySetCall(k, v, ttl) => ClashReported
             /\ StorageInsertCall(k, v, ttl) => ClashReported
             /\ StorageUpsertCall(k, v, ttl) => ClashReported
             /\ LockLockCall(k, v, ttl) => ~rret'.ok]_vars


\* --------------------------------------- the sweeper goroutine and its stop
\* how often the stop of one sweeper is invoked at most
MaxStops == 2

\* New of memory.go: runJanitor makes the channel j.stop and starts j.Run
runJanitor ==
    /\ janitor.kind = "none"
    /\ janitor' = [NoJanitor EXCEPT !.kind = "janitor", !.pc = "select"]
    /\ UNCHANGED <<now, items, ret, raceVars, redisVars, lockVars, fnVars, serialVars,
                   storage, sret, ilock, iret>>

\* New of gateway/memory: a context with cancel, and ticker.Run started with it
New ==
    /\ janitor.kind = "none"
    /\ janitor' = [NoJanitor EXCEPT !.kind = "ticker", !.pc = "select"]
    /\ UNCHANGED <<now, items, ret, raceVars, redisVars, lockVars, fnVars, serialVars,
                   storage, sret, ilock, iret>>

\* janitor.Run, case <-ticker.C (and the tick of ticker.Run): one sweep
janitorTick ==
    /\ janitor.pc = "select" /\ ~janitor.panic
    /\ items' = deleteExpired(items, now)
    /\ janitor' = [janitor EXCEPT !.swept = IF DOMAIN items' = DOMAIN items THEN "no"
                                           ELSE IF items' = << >> THEN "all"
                                           ELSE "some"]
    /\ UNCHANGED <<now, ret, raceVars, redisVars, lockVars, fnVars, serialVars,
                   storage, sret, ilock, iret>>

\* janitor.Run, case <-j.stop (and ctx.Done() in ticker.Run): the goroutine
\* returns
janitorReturn ==
    /\ janitor.pc = "select" /\ ~janitor.panic
    /\ janitor.stop = "closed"
    /\ janitor' = [janitor EXCEPT !.pc = "returned"]
    /\ UNCHANGED <<now, items, ret, raceVars, redisVars, lockVars, fnVars, serialVars,
                   storage, sret, ilock, iret>>

\* stopJanitor(gw): close(gw.janitor.stop); the close of a closed channel
\* panics
stopJanitor ==
    /\ janitor.kind = "janitor" /\ ~janitor.panic
    /\ janitor.stops < MaxStops
    /\ janitor' = [janitor EXCEPT !.stops = @ + 1,
                                  !.stop = "closed",
                                  !.panic = (janitor.stop = "closed")]
    /\ UNCHANGED <<now, items, ret, raceVars, redisVars, lockVars, fnVars, serialVars,
                   storage, sret, ilock, iret>>

\* finalizer(gw): gw.cancel(), the CancelFunc of the context; after the first
\* call, later calls of a CancelFunc do nothing
finalizer ==
    /\ janitor.kind = "ticker" /\ ~janitor.panic
    /\ janitor.stops < MaxStops
    /\ janitor' = [janitor EXCEPT !.stops = @ + 1, !.stop = "closed"]
    /\ UNCHANGED <<now, items, ret, raceVars, redisVars, lockVars, fnVars, serialVars,
                   storage, sret, ilock, iret>>

NextSweeper ==
    \/ runJanitor
    \/ New
    \/ janitorTick
    \/ janitorReturn
    \/ stopJanitor
    \/ finalizer
    \/ \E v \in Values, ttl \in TTLs : SetCall(RaceKey, v, ttl)
    \/ Tick

\* select takes a ready case at random: a stop that stays ready is taken
SpecSweeper == Init /\ [][NextSweeper]_vars /\ WF_vars(janitorReturn)

FinalizerIdempotent ==
    [][(finalizer /\ janitor.stop = "closed")
          => /\ ~janitor'.panic
             /\ janitor'.pc = janitor.pc /\ janitor'.stop = janitor.stop
             /\ items' = items]_vars

\* and after the first stop the sweeper goroutine returns, in both variants,
\* unless a panic ends the program first
StoppedSweeperReturns ==
    (janitor.stop = "closed") ~> (janitor.pc = "returned" \/ janitor.panic)


\* ------------------------------------------------------------------ C32
\* C32: if drawing a token from the random source fails, Lock() fails with that
\* error, no gateway call is made, and the handle's token and the store are
\* unchanged.
C32_TokenErrorLeavesNoTrace ==
    [][\A b \in Handles :
          LockTokenError(b) =>
             /\ ~hret'.ok /\ hret'.err = "rand"
             /\ hret'.sets = 0 /\ ~hret'.del
             /\ lock'[b].token = lock[b].token
             /\ items' = items]_vars

\* a Lock() has failed on the random source with an entry in the store
C32_Witness ==
    /\ hret.op = "Lock" /\ hret.err = "rand" /\ hret.line = 252
    /\ \E k \in DOMAIN items : Live(items, now, k)
    /\ lock[hret.h].token = ""


\* ------------------------------------------------------------------ C33
\* C33: in the lock.lua variant Lock on an absent key returns -3, Lock with the
\* stored token on a live key returns -4 and resets its TTL, Lock with another
\* token returns the remaining PTTL of the key with OK() false and
\* 0 <= TTL <= the configured ttl; OK() is true exactly for -3 and -4.
C33_ThreeCases ==
    [][\A k \in Keys, v \in Values, ttl \in LockTTLs :
          LockLockCall(k, v, ttl) =>
             /\ ~redisExists(rdb, now, k) =>
                   /\ rret'.rttl = -3 /\ rret'.ok
                   /\ rdb'[k] = [value |-> v, when |-> now + ttl * MsTicks]
             /\ (redisExists(rdb, now, k) /\ rdb[k].value = v) =>
                   /\ rret'.rttl = -4 /\ rret'.ok
                   /\ rdb'[k] = [value |-> v, when |-> now + ttl * MsTicks]
             /\ (redisExists(rdb, now, k) /\ rdb[k].value # v) =>
                   /\ ~rret'.ok /\ rret'.err = "nil"
                   /\ rret'.rttl >= 0 /\ rret'.rttl <= ttl
                   /\ rdb' = rdb
             /\ rret'.ok <=> rret'.rttl \in {-3, -4}]_vars

\* the part of C33 that holds: the three cases, with the PTTL of the key as it
\* is: -1 for a key without TTL, else from 0 to the largest ttl in use
ThreeCasesWithPttl ==
    [][\A k \in Keys, v \in Values, ttl \in LockTTLs :
          LockLockCall(k, v, ttl) =>
             /\ ~redisExists(rdb, now, k) =>
                   /\ rret'.rttl = -3 /\ rret'.ok
                   /\ rdb'[k] = [value |-> v, when |-> now + ttl * MsTicks]
             /\ (redisExists(rdb, now, k) /\ rdb[k].value = v) =>
                   /\ rret'.rttl = -4 /\ rret'.ok
                   /\ rdb'[k] = [value |-> v, when |-> now + ttl * MsTicks]
             /\ (redisExists(rdb, now, k) /\ rdb[k].value # v) =>
                   /\ ~rret'.ok /\ rret'.err = "nil"
                   /\ rret'.rttl = redisPttl(rdb, now, k)
                   /\ IF rdb[k].when = NoExpiry THEN rret'.rttl = -1
                      ELSE rret'.rttl >= 0 /\ rret'.rttl <= MaxTTL
                   /\ rdb' = rdb
             /\ rret'.ok <=> rret'.rttl \in {-3, -4}]_vars


\* ------------------------------------ the memory Storage that counts ttl down
\* the longest period of the Storage's timer, in ticks
MaxTimeout == 3

\* the ttl arguments of the Storage, as time.Duration (in ticks)
StorageTTLs == {ttl * MsTicks : ttl \in LockTTLs}

\* int64(v.ttl / time.Millisecond)
ttlMilliseconds(d) == d \div MsTicks

\* the loop body of Storage.init: every ttl is cut by the timeout, and the
\* entries with nothing left are deleted
initSweep(db, timeout) ==
    LET kept == {k \in DOMAIN db : db[k].ttl - timeout > 0}
    IN  [k \in kept |-> [db[k] EXCEPT !.ttl = @ - timeout]]

\* Storage.Insert that overwrites a stored entry of the same value
InsertOverwrite(db, key, value, ttl) ==
    IF key \in DOMAIN db /\ db[key].value # value
    THEN [i |-> ttlMilliseconds(db[key].ttl), db |-> db]
    ELSE [i |-> -1, db |-> store(db, key, [value |-> value, ttl |-> ttl])]

\* Storage.Insert
Insert(db, key, value, ttl) ==
    IF key \in DOMAIN db
    THEN [i |-> ttlMilliseconds(db[key].ttl), db |-> db]
    ELSE [i |-> -1, db |-> store(db, key, [value |-> value, ttl |-> ttl])]

\* Storage.Upsert
Upsert(db, key, value, ttl) ==
    IF key \notin DOMAIN db
    THEN [i |-> -1, db |-> store(db, key, [value |-> value, ttl |-> ttl])]
    ELSE IF db[key].value = value
         THEN [i |-> -1, db |-> [db EXCEPT ![key].ttl = ttl]]
         ELSE [i |-> ttlMilliseconds(db[key].ttl), db |-> db]

\* Storage.Remove
Remove(db, key, value) ==
    IF key \in DOMAIN db /\ db[key].value = value
    THEN [ok |-> TRUE, db |-> delete(db, key)]
    ELSE [ok |-> FALSE, db |-> db]

\* the record of the last install or refresh of key: when, and with which ttl
installed(born, key, i, ttl) ==
    IF i = -1 THEN store(born, key, [at |-> now, ttl |-> ttl]) ELSE born

\* NewStorage(timeout): the timer of init is started
NewStorage(timeout) ==
    /\ storage.pc = "none"
    /\ storage' = [NoStorage EXCEPT !.pc = "run", !.timeout = timeout,
                                    !.fire = now + timeout]
    /\ UNCHANGED <<now, items, ret, raceVars, redisVars, lockVars, fnVars, serialVars,
                   janitor, sret, ilock, iret>>

\* Storage.init, case <-timer.C: one sweep, then timer.Reset(s.timeout)
StorageInit ==
    /\ storage.pc = "run"
    /\ now >= storage.fire
    /\ storage' = [storage EXCEPT !.db = initSweep(storage.db, storage.timeout),
                                  !.fire = now + storage.timeout]
    /\ UNCHANGED <<now, items, ret, raceVars, redisVars, lockVars, fnVars, serialVars,
                   janitor, sret, ilock, iret>>

\* storage.Insert(key, value, ttl) called and returned
InsertCall(key, value, ttl) ==
    LET r == Insert(storage.db, key, value, ttl) IN
    /\ storage.pc = "run"
    /\ storage' = [storage EXCEPT !.db = r.db,
                                  !.born = installed(storage.born, key, r.i, ttl)]
    /\ sret' = [op |-> "Insert", key |-> key, value |-> value, ttl |-> ttl,
                i |-> r.i, ok |-> FALSE, before |-> storage.db]
    /\ UNCHANGED <<now, items, ret, raceVars, redisVars, lockVars, fnVars, serialVars,
                   janitor, ilock, iret>>

\* storage.Upsert(key, value, ttl) called and returned
UpsertCall(key, value, ttl) ==
    LET r == Upsert(storage.db, key, value, ttl) IN
    /\ storage.pc = "run"
    /\ storage' = [storage EXCEPT !.db = r.db,
                                  !.born = installed(storage.born, key, r.i, ttl)]
    /\ sret' = [op |-> "Upsert", key |-> key, value |-> value, ttl |-> ttl,
                i |-> r.i, ok |-> FALSE, before |-> storage.db]
    /\ UNCHANGED <<now, items, ret, raceVars, redisVars, lockVars, fnVars, serialVars,
                   janitor, ilock, iret>>

\* storage.Remove(key, value) called and returned
RemoveCall(key, value) ==
    LET r == Remove(storage.db, key, value) IN
    /\ storage.pc = "run"
    /\ storage' = [storage EXCEPT !.db = r.db,
                                  !.born = IF r.ok THEN delete(@, key) ELSE @]
    /\ sret' = [op |-> "Remove", key |-> key, value |-> value, ttl |-> 0,
                i |-> 0, ok |-> r.ok, before |-> storage.db]
    /\ UNCHANGED <<now, items, ret, raceVars, redisVars, lockVars, fnVars, serialVars,
                   janitor, ilock, iret>>

NextStorage ==
    \/ \E timeout \in 1..MaxTimeout : NewStorage(timeout)
    \/ StorageInit
    \/ \E v \in Values, ttl \in StorageTTLs : InsertCall(RaceKey, v, ttl)
    \/ \E v \in Values, ttl \in StorageTTLs : UpsertCall(RaceKey, v, ttl)
    \/ \E v \in Values : RemoveCall(RaceKey, v)
    \/ Tick

SpecStorage == Init /\ [][NextStorage]_vars

\* key was installed or refreshed with a ttl of which more than d is left
Within(key, d) ==
    /\ key \in DOMAIN storage.born
    /\ now - storage.born[key].at < storage.born[key].ttl - d

\* C34: in the Storage that counts ttl down, an entry inserted with TTL T stays
\* stored for at least T: an Insert on a key inserted less than T ago and not
\* removed returns contention (from 0 to T, in ms), never -1, for every timeout
\* of the sweep and every phase of the insert relative to its ticks.
C34_StoredForTTL ==
    [][\A k \in Keys, v \in Values, ttl \in StorageTTLs :
          (InsertCall(k, v, ttl) /\ Within(k, 0)) =>
             /\ sret'.i >= 0
             /\ sret'.i <= ttlMilliseconds(storage.born[k].ttl)]_vars

\* what holds of C34: the entry stays stored for its TTL less one timeout
StoredForTTLLessTimeout ==
    [][\A k \in Keys, v \in Values, ttl \in StorageTTLs :
          (InsertCall(k, v, ttl) /\ Within(k, storage.timeout)) =>
             /\ sret'.i >= 0
             /\ sret'.i <= ttlMilliseconds(storage.born[k].ttl)]_vars


\* ------------------------------------------------------------------ C35
\* C35: Insert on a stored key returns contention (>= 0), also with the stored
\* value, and never changes the entry; Upsert with the stored value returns -1
\* and resets the TTL, with another value returns contention and changes
\* nothing, on an absent key installs and returns -1; Remove deletes and returns
\* true only when the stored value equals the given one.
C35_StorageSemantics ==
    [][\A k \in Keys, v \in Values :
          LET db == storage.db
              stored == k \in DOMAIN db
          IN  /\ \A ttl \in StorageTTLs :
                    /\ (InsertCall(k, v, ttl) /\ stored) =>
                          (sret'.i >= 0 /\ storage'.db = db)
                    /\ (UpsertCall(k, v, ttl) /\ stored /\ db[k].value = v) =>
                          /\ sret'.i = -1
                          /\ storage'.db = [db EXCEPT ![k].ttl = ttl]
                    /\ (UpsertCall(k, v, ttl) /\ stored /\ db[k].value # v) =>
                          (sret'.i >= 0 /\ storage'.db = db)
                    /\ (UpsertCall(k, v, ttl) /\ ~stored) =>
                          /\ sret'.i = -1
                          /\ DOMAIN storage'.db = DOMAIN db \cup {k}
                          /\ storage'.db[k] = [value |-> v, ttl |-> ttl]
              /\ RemoveCall(k, v) =>
                    /\ sret'.ok <=> (stored /\ db[k].value = v)
                    /\ IF sret'.ok THEN storage'.db = delete(db, k)
                                   ELSE storage'.db = db]_vars

\* an Insert with the stored value, on an entry partly counted down, has
\* returned contention
C35_Witness ==
    /\ sret.op = "Insert"
    /\ sret.key \in DOMAIN sret.before
    /\ sret.before[sret.key].value = sret.value
    /\ sret.key \in DOMAIN storage.born
    /\ sret.before[sret.key].ttl < storage.born[sret.key].ttl
    /\ sret.i >= 0
    /\ storage.db = sret.before

\* the same semantics at the Redis Storage, for the keys that have a TTL
RedisStorageSemantics ==
    [][\A k \in Keys, v \in Values, ttl \in LockTTLs :
          LET stored == redisExists(rdb, now, k)
              expiring == stored /\ rdb[k].when # NoExpiry
              entry == [value |-> v, when |-> now + ttl * MsTicks]
          IN  /\ (StorageInsertCall(k, v, ttl) /\ expiring) =>
                    (rret'.rttl >= 0 /\ rret'.err = "nil" /\ rdb' = rdb)
              /\ (StorageUpsertCall(k, v, ttl) /\ stored /\ rdb[k].value = v) =>
                    (rret'.rttl = -1 /\ rret'.err = "nil" /\ rdb'[k] = entry)
              /\ (StorageUpsertCall(k, v, ttl) /\ expiring /\ rdb[k].value # v) =>
                    (rret'.rttl >= 0 /\ rret'.err = "nil" /\ rdb' = rdb)
              /\ (StorageUpsertCall(k, v, ttl) /\ ~stored) =>
                    (rret'.rttl = -1 /\ rret'.err = "nil" /\ rdb'[k] = entry)]_vars


\* ---------------------------------- the lock of the Insert/Upsert variant
\* how many tokens the random source hands out to the handles of this variant
MaxDraws == 4

\* what the actions of this variant leave alone
notILock ==
    <<items, ret, raceVars, redisVars, fnVars, serialVars, janitor, sret, lock,
      hret, lease>>

\* (retryCount, retryDelay) of the Locker: none, or MaxRetry retries a tick apart
IRetryOptions == {<<0, 0>>, <<MaxRetry, 1>>}

\* locker.NewLock(key), twice, on one Locker over the Storage (example_test.go)
INewLocks(ttl, retry) ==
    /\ storage.pc = "run"
    /\ \A h \in Handles : ilock[h].pc = "none"
    /\ ilock' = [h \in Handles |->
                   [NoILock EXCEPT !.key = RaceKey, !.ttl = ttl, !.pc = "idle",
                                   !.retryCount = retry[1], !.retryDelay = retry[2]]]
    /\ UNCHANGED <<now, storage, iret, nextToken, ctxDone, notILock>>

\* a Lock() or Unlock() of handle h returns
returned(h, op, i, ok, err, removes) ==
    [op |-> op, h |-> h, i |-> i, ok |-> ok, err |-> err, removes |-> removes,
     lost |-> ilock[h].lost]

\* the key is stored with a value the handle does not hold
IHeldByOther(h) ==
    /\ ilock[h].key \in DOMAIN storage.db
    /\ storage.db[ilock[h].key].value # ilock[h].token

\* Lock.update that keeps the token when Upsert reports contention
ILockUpdateKeepsToken(h) ==
    LET l == ilock[h]
        r == Upsert(storage.db, l.key, l.token, l.ttl)
    IN  /\ l.pc = "idle" /\ l.token # ""
        /\ storage' = [storage EXCEPT !.db = r.db]
        /\ IF r.i = -1
           THEN /\ ilock' = [ilock EXCEPT ![h].lost = "no"]
                /\ iret' = returned(h, "Lock", r.i, TRUE, "nil", 0)
           ELSE /\ ilock' = [ilock EXCEPT ![h].pc = "create", ![h].i = r.i,
                                          ![h].updated = TRUE]
                /\ UNCHANGED iret
        /\ UNCHANGED <<now, nextToken, ctxDone, notILock>>

\* Lock.Lock with a token, lock.go:27-30 and 87-97: update calls Upsert; -1 is
\* returned, on contention the token is dropped and create comes next
ILockUpdate(h) ==
    LET l == ilock[h]
        r == Upsert(storage.db, l.key, l.token, l.ttl)
    IN  /\ l.pc = "idle" /\ l.token # ""
        /\ storage' = [storage EXCEPT !.db = r.db]
        /\ IF r.i = -1
           THEN /\ ilock' = [ilock EXCEPT ![h].lost = "no"]
                /\ iret' = returned(h, "Lock", r.i, TRUE, "nil", 0)
           ELSE /\ ilock' = [ilock EXCEPT ![h].token = "", ![h].pc = "create",
                                          ![h].i = r.i, ![h].updated = TRUE]
                /\ UNCHANGED iret
        /\ UNCHANGED <<now, nextToken, ctxDone, notILock>>

\* Upsert fails: update returns (i, err), lock.go:89-91
ILockUpdateError(h) ==
    /\ ilock[h].pc = "idle" /\ ilock[h].token # ""
    /\ iret' = returned(h, "Lock", -2, FALSE, "io", 0)
    /\ ilock' = [ilock EXCEPT ![h].lost = "no"]
    /\ UNCHANGED <<now, storage, nextToken, ctxDone, notILock>>

\* create is about to run: Lock() called without a token, or after update
AtCreate(h) ==
    \/ ilock[h].pc = "idle" /\ ilock[h].token = ""
    \/ ilock[h].pc = "create"

\* the timer of insert has fired
ITimer(h) == ilock[h].pc = "wait" /\ now >= ilock[h].deadline

\* one turn of the loop of insert, lock.go:57-84, with Insert answering: the
\* token is kept on -1, i is returned with no retry left, else the timer is set
insertTurn(h, token, counter) ==
    LET l == ilock[h]
        r == Insert(storage.db, l.key, token, l.ttl)
    IN  /\ storage' = [storage EXCEPT !.db = r.db]
        /\ IF r.i = -1
           THEN /\ ilock' = [ilock EXCEPT ![h] = [l EXCEPT !.token = token, !.pc = "idle",
                                !.ltoken = "", !.updated = FALSE, !.lost = "no"]]
                /\ iret' = returned(h, "Lock", r.i, TRUE, "nil", 0)
           ELSE IF counter <= 0
                THEN /\ ilock' = [ilock EXCEPT ![h] = [l EXCEPT !.pc = "idle",
                                     !.ltoken = "", !.i = r.i, !.updated = FALSE,
                                     !.lost = IF l.updated THEN "lost" ELSE "no"]]
                     /\ iret' = returned(h, "Lock", r.i, FALSE, "nil", 0)
                ELSE /\ \E timeout \in newDelayFloat(l.retryDelay, 0) :
                           ilock' = [ilock EXCEPT ![h] = [l EXCEPT !.pc = "wait",
                                        !.ltoken = token, !.counter = counter - 1,
                                        !.i = r.i, !.deadline = now + timeout]]
                     /\ UNCHANGED iret

\* create, lock.go:47-53: a token is drawn and insert makes its first turn
ILockCreate(h) ==
    /\ AtCreate(h)
    /\ nextToken < MaxDraws
    /\ nextToken' = nextToken + 1
    /\ insertTurn(h, newToken(nextToken + 1), ilock[h].retryCount)
    /\ UNCHANGED <<now, ctxDone, notILock>>

\* create, lock.go:48-51: the random source fails
ILockTokenError(h) ==
    /\ AtCreate(h)
    /\ iret' = returned(h, "Lock", -2, FALSE, "rand", 0)
    /\ ilock' = [ilock EXCEPT ![h].pc = "idle", ![h].updated = FALSE, ![h].lost = "no"]
    /\ UNCHANGED <<now, storage, nextToken, ctxDone, notILock>>

\* insert, case <-timer.C: the next turn of the loop
ILockRetry(h) ==
    /\ ITimer(h)
    /\ insertTurn(h, ilock[h].ltoken, ilock[h].counter)
    /\ UNCHANGED <<now, nextToken, ctxDone, notILock>>

\* insert, case <-ctx.Done(): i of the last turn is returned
ILockDone(h) ==
    /\ ilock[h].pc = "wait" /\ ctxDone
    /\ ilock' = [ilock EXCEPT ![h].pc = "idle", ![h].ltoken = "",
                              ![h].updated = FALSE, ![h].lost = IF ilock[h].updated THEN "lost" ELSE "no"]
    /\ iret' = returned(h, "Lock", ilock[h].i, FALSE, "nil", 0)
    /\ UNCHANGED <<now, storage, nextToken, ctxDone, notILock>>

\* Insert fails in a turn of insert: (i, err) is returned, lock.go:59-61
ILockInsertError(h) ==
    /\ ITimer(h)
    /\ ilock' = [ilock EXCEPT ![h].pc = "idle", ![h].ltoken = "",
                              ![h].updated = FALSE, ![h].lost = "no"]
    /\ iret' = returned(h, "Lock", -2, FALSE, "io", 0)
    /\ UNCHANGED <<now, storage, nextToken, ctxDone, notILock>>

\* Lock.Unlock, lock.go:34-45
IUnlock(h) ==
    LET l == ilock[h]
        r == Remove(storage.db, l.key, l.token)
    IN  /\ l.pc = "idle"
        /\ IF l.token = ""
           THEN /\ iret' = returned(h, "Unlock", 0, FALSE, "nil", 0)
                /\ UNCHANGED <<storage, ilock>>
           ELSE /\ ilock' = [g \in Handles |->
                              IF g = h THEN [l EXCEPT !.token = "", !.lost = "no"]
                              ELSE IF r.ok /\ ilock[g].lost = "lost"
                                   THEN [ilock[g] EXCEPT !.lost = "freed"]
                                   ELSE ilock[g]]
                /\ storage' = [storage EXCEPT !.db = r.db]
                /\ iret' = returned(h, "Unlock", 0, r.ok, "nil", 1)
        /\ UNCHANGED <<now, nextToken, ctxDone, notILock>>

\* the context of the handles is cancelled
ICancel ==
    /\ ~ctxDone
    /\ ctxDone' = TRUE
    /\ UNCHANGED <<now, storage, ilock, iret, nextToken, notILock>>

NextILock ==
    \/ NewStorage(MsTicks)
    \/ \E ttl \in StorageTTLs, retry \in IRetryOptions : INewLocks(ttl, retry)
    \/ StorageInit
    \/ \E h \in Handles : ILockUpdate(h)
    \/ \E h \in Handles : ILockUpdateError(h)
    \/ \E h \in Handles : ILockCreate(h)
    \/ \E h \in Handles : ILockTokenError(h)
    \/ \E h \in Handles : ILockRetry(h)
    \/ \E h \in Handles : ILockDone(h)
    \/ \E h \in Handles : ILockInsertError(h)
    \/ \E h \in Handles : IUnlock(h)
    \/ ICancel
    \/ Tick

SpecILock == Init /\ [][NextILock]_vars


\* Lock() of handle h comes back in this step
IReturns(h) == iret' # iret /\ iret'.h = h /\ iret'.op = "Lock"

\* the tokens drawn so far
IDrawn == {newToken(n) : n \in 1..nextToken}

\* C36: in the Insert/Upsert variant, Lock() on a handle that holds a token while
\* the key is held live by another handle's token returns the remaining TTL of
\* the key (not -1), leaves the handle without a token, makes no Remove call
\* and leaves the other holder's entry untouched; after the other holder
\* unlocks, Lock() on the first handle succeeds with a fresh token.
C36_StaleHolderLoses ==
    [][\A h \in Handles :
          LET l == ilock[h]
              db == storage.db
              held == l.key \in DOMAIN db
          IN  /\ (l.pc = "idle" /\ l.token # "" /\ IHeldByOther(h) /\ ILockUpdate(h)) =>
                    /\ ilock'[h].token = "" /\ ilock'[h].pc = "create"
                    /\ ilock'[h].i = ttlMilliseconds(db[l.key].ttl)
                    /\ iret' = iret /\ storage'.db = db
              /\ ((l.pc = "create" \/ l.updated) /\ held /\ IReturns(h)
                     /\ (ILockCreate(h) \/ ILockRetry(h))) =>
                    /\ iret'.i = ttlMilliseconds(db[l.key].ttl)
                    /\ iret'.i >= 0 /\ ~iret'.ok /\ iret'.err = "nil"
                    /\ iret'.removes = 0
                    /\ ilock'[h].token = "" /\ ilock'[h].lost = "lost"
                    /\ storage'.db = db
              /\ (l.updated /\ ILockDone(h)) =>
                    /\ iret'.i >= 0 /\ ~iret'.ok /\ iret'.removes = 0
                    /\ ilock'[h].token = "" /\ storage'.db = db
              /\ (l.lost = "freed" /\ ~held /\ ILockCreate(h)) =>
                    /\ iret'.op = "Lock" /\ iret'.h = h /\ iret'.i = -1 /\ iret'.ok
                    /\ ilock'[h].token = newToken(nextToken + 1)
                    /\ ilock'[h].token \notin IDrawn
                    /\ storage'.db[l.key].value = ilock'[h].token]_vars

\* a handle whose token was stale lost to the holder, the holder unlocked, and
\* the handle has locked the key with the token drawn last
C36_Witness ==
    /\ iret.op = "Lock" /\ iret.i = -1 /\ iret.lost = "freed"
    /\ ilock[iret.h].token = newToken(nextToken)
    /\ RaceKey \in DOMAIN storage.db
    /\ storage.db[RaceKey].value = ilock[iret.h].token
    /\ \A g \in Handles \ {iret.h} : ilock[g].token = ""


\* ------------------------------------------------------------------ C37
\* C37: state unchanged on backend error. When gateway.Set returns an error,
\* Lock() leaves the handle's token as it was before the call: a Held handle
\* keeps its token, an Idle handle stays Idle and the token drawn is dropped.
\* (A step after which the Lock() still runs never touches lk.token, so the
\* token at the failing Set is the token at the call.)
C37_ErrorKeepsToken ==
    [][\A b \in Handles :
          /\ (hret'.line = 261 /\ hret'.h = b /\ StepOf(b) /\ LockSetError(b)) =>
                /\ lock'[b].token = lock[b].token
                /\ lock'[b].pc = "idle"
                /\ ~hret'.ok /\ hret'.err \in GatewayErrors
                /\ items' = items
          /\ lock'[b].pc # "idle" => lock'[b].token = lock[b].token]_vars

\* a Held handle whose entry another handle took over has retried, met an
\* error of the gateway on a later attempt, and still holds its token
C37_Witness ==
    /\ hret.op = "Lock" /\ hret.line = 261 /\ hret.err \in GatewayErrors
    /\ hret.sets >= 2
    /\ lock[hret.h].token # ""


\* ------------------------------------------------------------------ C38
\* the sweeper of either variant running among the calls of the gateway
NextSweep ==
    \/ runJanitor
    \/ New
    \/ janitorTick
    \/ \E k \in Keys, v \in Values, ttl \in TTLs : SetCall(k, v, ttl)
    \/ \E k \in Keys, v \in Values : DelCall(k, v)
    \/ Tick

SpecSweep == Init /\ [][NextSweep]_vars

\* C38: the sweeper removes only expired entries. In every interleaving with
\* Set and Del, a sweep never removes an entry whose expires-at is still in the
\* future and never changes the value or the expiry of an entry it keeps.
C38_SweepOnlyExpired ==
    [][janitorTick =>
          /\ DOMAIN items' \subseteq DOMAIN items
          /\ \A k \in DOMAIN items :
                /\ Live(items, now, k) => k \in DOMAIN items'
                /\ k \in DOMAIN items' => items'[k] = items[k]]_vars

\* the last sweep deleted an expired entry and kept a live one
C38_Witness ==
    /\ janitor.swept = "some"
    /\ \E k \in DOMAIN items : Live(items, now, k) /\ items[k].expiresAt - now <= MsTicks


\* ------------------------------------------------------------------ C39
\* one handle calling Lock() against a gateway that answers with a success, a
\* contention or an error, with or without the cancellation of its context
NextLockFair ==
    \/ LockTokenError(Caller)
    \/ LockAttempt(Caller)
    \/ LockSetError(Caller)
    \/ LockCancelled(Caller)
    \/ Cancel
    \/ ForeignSet
    \/ LockTick

\* the handles of one Locker
InitLockFair == InitLock /\ \A h \in Handles : lock[h] = lock[Caller]

\* every call of the gateway returns, and a select with a ready case takes one
SpecLockFair ==
    /\ InitLockFair /\ [][NextLockFair]_vars
    /\ WF_vars(LockAttempt(Caller) \/ LockSetError(Caller))
    /\ WF_vars(LockCancelled(Caller))

\* the retry timer of a waiting Lock() fires in the end
TimerFires == []<>(lock[Caller].pc # "wait" \/ now >= lock[Caller].deadline)

\* C39: Lock() always terminates. For every retryCount and every behaviour of
\* the gateway (success, contention or error on each call), provided each
\* gateway call returns and each retry timer eventually fires, a Lock() that
\* runs eventually returns, with or without cancellation.
C39_LockTerminates ==
    TimerFires => ((lock[Caller].pc # "idle") ~> (lock[Caller].pc = "idle"))

\* the loop of insert in lock.go has the same shape: each turn that goes on to
\* wait has spent one of the retryCount retries, and a waiting insert has none
\* below zero, so no call takes more than retryCount + 1 turns
InsertTurnsBounded ==
    [][\A h \in Handles :
          /\ ilock'[h].pc = "wait" => ilock'[h].counter \in 0..MaxRetry
          /\ (ilock[h].pc = "wait" /\ ilock'[h].pc = "wait" /\ ilock'[h].i # ilock[h].i)
                => ilock'[h].counter < ilock[h].counter]_vars

\* a Lock() has returned after waiting for its retry timer
C39_Witness ==
    /\ hret.op = "Lock" /\ hret.h = Caller
    /\ hret.waits >= 1
    /\ lock[Caller].pc = "idle"


====
